---------------------------- MODULE Spec2Model ----------------------------
(***************************************************************************)
(* State-machine model of the Carbon-Aware Compute Orchestrator (CACO):    *)
(* the scheduling engine (src/src/optimization/engine.py) and the Compute  *)
(* agent's ledger (src/src/compute_agent/agent.py).                        *)
(*                                                                         *)
(* Units.  The source computes with datetimes and floats; the model uses   *)
(* exact integers in units fine enough for every value it draws:           *)
(*   time, durations, lateness, deferral : quarter hours (15 min)          *)
(*   power                               : kW                              *)
(*   energy                              : kW x quarter hour (0.25 kWh)    *)
(*   series price                        : GBP/MWh                         *)
(*   price lookup (GBP/kWh)              : 1e-4 GBP/kWh                    *)
(*   carbon                              : g/kWh                           *)
(*   carbon / sla penalty weights        : tenths                          *)
(*   score                               : 2.5e-5 GBP (score x 40000)      *)
(*   averages, offer price               : exact fractions [num, den]      *)
(* Float rounding error is not modelled: arithmetic is exact.              *)
(***************************************************************************)
EXTENDS Integers, Sequences, FiniteSets, TLC

\* timedelta(minutes=30), in quarter hours
SLOT_DURATION == 2

\* best_index = None: timeline indices are 1-based in the model
NoIndex == 0

\* min_activation_notice_minutes of every flex offer
MIN_ACTIVATION_NOTICE_MINUTES == 60

---------------------------------------------------------------------------
(* Bounds of the model *)

\* longest carbon / price series drawn
MaxPts == 2
\* longest job list handed to the engine or carried by an ingest request
MaxJobs == 2

---------------------------------------------------------------------------
(* Arithmetic helpers *)

Max(a, b) == IF a >= b THEN a ELSE b

Min(a, b) == IF a <= b THEN a ELSE b

\* Python round(n / d) for n >= 0, d > 0: nearest integer, ties to even
RoundHalfEven(n, d) ==
    LET q == n \div d
        r == n % d
    IN  IF 2 * r < d THEN q
        ELSE IF 2 * r > d THEN q + 1
        ELSE IF q % 2 = 0 THEN q ELSE q + 1

RECURSIVE SumOver(_, _)
\* sum(f[x] for x in S)
SumOver(f, S) ==
    IF S = {} THEN 0
    ELSE LET x == CHOOSE y \in S : TRUE IN f[x] + SumOver(f, S \ {x})

RECURSIVE sorted_set(_)
\* sorted(set)
sorted_set(S) ==
    IF S = {} THEN <<>>
    ELSE LET m == CHOOSE x \in S : \A y \in S : x <= y
         IN  <<m>> \o sorted_set(S \ {m})

---------------------------------------------------------------------------
(* Time model: src/src/domain/models.py *)

TwoDigits(n) ==
    LET d == <<"0", "1", "2", "3", "4", "5", "6", "7", "8", "9">>
    IN  d[(n \div 10) + 1] \o d[(n % 10) + 1]

\* isoformat(value): quarter hour t, counted from 2024-01-01T00:00, as
\* ISO-8601 with Z suffix
isoformat(t) ==
    "2024-01-" \o TwoDigits(1 + t \div 96) \o "T" \o TwoDigits((t % 96) \div 4)
        \o ":" \o TwoDigits((t % 4) * 15) \o ":00Z"

---------------------------------------------------------------------------
(* Domain entities: src/src/domain/models.py *)

\* JobSpec.duration_slots: max(1, int(round(duration_hours * 2)))
duration_slots(job) == Max(1, RoundHalfEven(job.duration_hours, 2))

\* a variant that takes every job to be flexible
is_flexible_always(job) == job.max_deferral_hours >= 0

\* JobSpec.is_flexible
is_flexible(job) == job.max_deferral_hours > 0

---------------------------------------------------------------------------
(* Scheduling engine: src/src/optimization/engine.py *)

Timestamps(series) == {series[i].timestamp : i \in DOMAIN series}

\* value a dict comprehension over the series holds for key ts: the last
\* point with that timestamp wins
LastAt(series, ts) ==
    series[CHOOSE i \in DOMAIN series :
              /\ series[i].timestamp = ts
              /\ \A j \in DOMAIN series : series[j].timestamp = ts => j <= i]

\* point.system_buy_price_gbp_per_mwh / 1000 (GBP/kWh), held in 1e-4 GBP/kWh
price_per_kwh(buy) == buy * 10

\* price_map = {point.timestamp: point.system_buy_price_gbp_per_mwh / 1000 ...}
price_map(price_series) ==
    [ts \in Timestamps(price_series) |->
        price_per_kwh(LastAt(price_series, ts).system_buy_price_gbp_per_mwh)]

\* carbon_map = {point.timestamp: point.forecast_g_per_kwh ...}
carbon_map(carbon_series) ==
    [ts \in Timestamps(carbon_series) |->
        LastAt(carbon_series, ts).forecast_g_per_kwh]

\* next(iter(map.values())): the value under the first key inserted, which is
\* the timestamp of the first point of the series
first_value(map, series) == map[series[1].timestamp]

RECURSIVE forward_fill_first_value(_, _, _, _)
\* a variant that never carries a value forward: a gap is filled with the
\* initial value
forward_fill_first_value(timestamps, map, i, last) ==
    IF i > Len(timestamps) THEN <<>>
    ELSE LET ts  == timestamps[i]
             cur == IF ts \in DOMAIN map THEN map[ts] ELSE last
         IN  <<cur>> \o forward_fill_first_value(timestamps, map, i + 1, last)

RECURSIVE forward_fill(_, _, _, _)
\* the loop of _build_timeline for one of the two maps: the sequence of
\* filled values, one per timestamp from index i on
forward_fill(timestamps, map, i, last) ==
    IF i > Len(timestamps) THEN <<>>
    ELSE LET ts  == timestamps[i]
             cur == IF ts \in DOMAIN map THEN map[ts] ELSE last
         IN  <<cur>> \o forward_fill(timestamps, map, i + 1, cur)

EmptyLookup == [ts \in {} |-> 0]

\* _build_timeline: raised = TRUE stands for the StopIteration that
\* next(iter({}.values())) raises when one series is empty and the other not
build_timeline(carbon_series, price_series) ==
    LET timestamps == sorted_set(Timestamps(carbon_series) \cup Timestamps(price_series))
    IN  IF timestamps = <<>>
        THEN [raised |-> FALSE, timeline |-> <<>>,
              price_lookup |-> EmptyLookup, carbon_lookup |-> EmptyLookup]
        ELSE IF price_series = <<>> \/ carbon_series = <<>>
        THEN [raised |-> TRUE, timeline |-> <<>>,
              price_lookup |-> EmptyLookup, carbon_lookup |-> EmptyLookup]
        ELSE LET pm == price_map(price_series)
                 cm == carbon_map(carbon_series)
                 fp == forward_fill(timestamps, pm, 1, first_value(pm, price_series))
                 fc == forward_fill(timestamps, cm, 1, first_value(cm, carbon_series))
                 pos(ts) == CHOOSE i \in DOMAIN timestamps : timestamps[i] = ts
             IN  [raised |-> FALSE, timeline |-> timestamps,
                  price_lookup |-> [ts \in Timestamps(carbon_series) \cup Timestamps(price_series) |-> fp[pos(ts)]],
                  carbon_lookup |-> [ts \in Timestamps(carbon_series) \cup Timestamps(price_series) |-> fc[pos(ts)]]]

\* slot_energy = job.power_kw * SLOT_HOURS, in kW x quarter hour
slot_energy(job) == job.power_kw * SLOT_DURATION

\* slot_end = timeline[idx + slot_count - 1] + SLOT_DURATION
slot_end_at(job, timeline, idx) == timeline[idx + duration_slots(job) - 1] + SLOT_DURATION

\* lateness_hours = max(0.0, (slot_end - job.deadline) hours)
lateness_at(job, timeline, idx) == Max(0, slot_end_at(job, timeline, idx) - job.deadline)

\* a variant of the lateness filter that lets a placement end one slot later
lateness_rejected_one_slot_late(job, lateness_hours) ==
    lateness_hours > job.max_deferral_hours + SLOT_DURATION /\ job.max_deferral_hours > 0

\* the lateness filter of _select_start_index: TRUE when the candidate is skipped
lateness_rejected(job, lateness_hours) ==
    lateness_hours > job.max_deferral_hours /\ job.max_deferral_hours > 0

\* the arrival filter of _select_start_index: TRUE when the candidate is skipped
arrival_rejected(job, slot_start) == slot_start < job.arrival_time

\* a variant of the power cap constraint that looks at the job alone, not at
\* the power already booked
power_rejected_ignoring_booked(job, power_usage, max_power_kw, idx) ==
    job.power_kw > max_power_kw

\* the power cap constraint of _select_start_index: TRUE when the candidate is skipped
power_rejected(job, power_usage, max_power_kw, idx) ==
    \E offset \in 0 .. duration_slots(job) - 1 :
        power_usage[idx + offset] + job.power_kw > max_power_kw

\* sum over the occupied slots of slot_price * slot_energy
price_cost_at(job, timeline, price_lookup, idx) ==
    LET term == [offset \in 0 .. duration_slots(job) - 1 |->
                    price_lookup[timeline[idx + offset]] * slot_energy(job)]
    IN  SumOver(term, DOMAIN term)

\* sum over the occupied slots of slot_carbon * slot_energy (x 4000 kg)
carbon_cost_at(job, timeline, carbon_lookup, idx) ==
    LET term == [offset \in 0 .. duration_slots(job) - 1 |->
                    carbon_lookup[timeline[idx + offset]] * slot_energy(job)]
    IN  SumOver(term, DOMAIN term)

\* a variant of the score that leaves the carbon term out
score_at_price_and_lateness(job, timeline, price_lookup, carbon_lookup, weights, idx) ==
      price_cost_at(job, timeline, price_lookup, idx)
    + (weights.sla_penalty_weight + 10 * job.sla_penalty_per_hour)
        * lateness_at(job, timeline, idx) * 1000

\* the score of _select_start_index for candidate idx (x 40000)
score_at(job, timeline, price_lookup, carbon_lookup, weights, idx) ==
      price_cost_at(job, timeline, price_lookup, idx)
    + weights.carbon_penalty_weight * carbon_cost_at(job, timeline, carbon_lookup, idx)
    + (weights.sla_penalty_weight + 10 * job.sla_penalty_per_hour)
        * lateness_at(job, timeline, idx) * 1000

RECURSIVE select_loop(_, _, _, _, _, _, _, _)
\* the for loop of _select_start_index from candidate idx on
select_loop(job, timeline, price_lookup, carbon_lookup, power_usage, weights, idx, best) ==
    IF idx > Len(timeline) THEN best
    ELSE IF idx - 1 + duration_slots(job) > Len(timeline) THEN best     \* break
    ELSE LET continue == select_loop(job, timeline, price_lookup, carbon_lookup,
                                     power_usage, weights, idx + 1, best)
             lateness_hours == lateness_at(job, timeline, idx)
             score == score_at(job, timeline, price_lookup, carbon_lookup, weights, idx)
         IN  IF arrival_rejected(job, timeline[idx]) THEN continue
             ELSE IF lateness_rejected(job, lateness_hours) THEN continue
             ELSE IF power_rejected(job, power_usage, weights.max_power_kw, idx) THEN continue
             ELSE IF best.best_index = NoIndex \/ score < best.best_score
                  THEN select_loop(job, timeline, price_lookup, carbon_lookup,
                                   power_usage, weights, idx + 1,
                                   [best_index |-> idx, best_score |-> score,
                                    best_lateness |-> lateness_hours])
                  ELSE continue

\* _select_start_index
select_start_index(job, timeline, price_lookup, carbon_lookup, power_usage, weights) ==
    select_loop(job, timeline, price_lookup, carbon_lookup, power_usage, weights, 1,
                [best_index |-> NoIndex, best_score |-> 0, best_lateness |-> 0])

\* a variant of the sort key that puts the lowest priority first
sort_key_lowest_priority_first(job) == <<job.priority, job.duration_hours, job.arrival_time>>

\* the sort key of optimize_schedule
sort_key(job) == <<0 - job.priority, job.duration_hours, job.arrival_time>>

\* tuple comparison key_a < key_b
key_less(a, b) ==
    \/ a[1] < b[1]
    \/ a[1] = b[1] /\ a[2] < b[2]
    \/ a[1] = b[1] /\ a[2] = b[2] /\ a[3] < b[3]

RECURSIVE insert_sorted_before_equals(_, _)
\* a variant that inserts job before the elements of equal key (not stable)
insert_sorted_before_equals(seq, job) ==
    IF seq = <<>> THEN <<job>>
    ELSE IF ~ key_less(sort_key(seq[1]), sort_key(job))
         THEN <<job>> \o seq
         ELSE <<seq[1]>> \o insert_sorted_before_equals(Tail(seq), job)

RECURSIVE insert_sorted(_, _)
\* insert job after every element whose key is not greater (stable)
insert_sorted(seq, job) ==
    IF seq = <<>> THEN <<job>>
    ELSE IF key_less(sort_key(job), sort_key(seq[1]))
         THEN <<job>> \o seq
         ELSE <<seq[1]>> \o insert_sorted(Tail(seq), job)

RECURSIVE sorted_jobs_of(_)
\* sorted(jobs, key=...): stable
sorted_jobs_of(jobs) ==
    IF jobs = <<>> THEN <<>>
    ELSE insert_sorted(sorted_jobs_of(SubSeq(jobs, 1, Len(jobs) - 1)), jobs[Len(jobs)])

\* a variant of the commit that books the first occupied slot only
commit_power_first_slot_only(job, power_usage, start_index) ==
    [i \in DOMAIN power_usage |->
        IF i = start_index THEN power_usage[i] + job.power_kw ELSE power_usage[i]]

\* power_usage after the commit loop of optimize_schedule
commit_power(job, power_usage, start_index) ==
    [i \in DOMAIN power_usage |->
        IF i >= start_index /\ i < start_index + duration_slots(job)
        THEN power_usage[i] + job.power_kw
        ELSE power_usage[i]]

\* the ScheduledJob optimize_schedule appends for a placement
\* expected_cost_gbp in pence (round(.., 2)), expected_carbon_kg in grams (round(.., 3))
scheduled_job(job, timeline, price_lookup, carbon_lookup, start_index, lateness_hours) ==
    [job_id            |-> job.job_id,
     start_time        |-> timeline[start_index],
     end_time          |-> timeline[start_index + duration_slots(job) - 1] + SLOT_DURATION,
     power_kw          |-> job.power_kw,
     expected_cost_gbp |-> RoundHalfEven(price_cost_at(job, timeline, price_lookup, start_index), 400),
     expected_carbon_kg |-> RoundHalfEven(carbon_cost_at(job, timeline, carbon_lookup, start_index), 4),
     is_flexible_offer |-> is_flexible(job),
     metadata          |-> [lateness_hours |-> lateness_hours,
                            cluster_id     |-> job.cluster_id,
                            priority       |-> job.priority]]

\* _average_value_between: sum(selected) / len(selected) as a fraction;
\* with nothing selected the first value of the dict (timeline order), or 0
average_value_between(values, timeline, start, end) ==
    LET selected == {ts \in DOMAIN values : start <= ts /\ ts <= end}
    IN  IF selected = {}
        THEN IF DOMAIN values = {} THEN [num |-> 0, den |-> 1]
             ELSE [num |-> values[timeline[1]], den |-> 1]
        ELSE [num |-> SumOver(values, selected), den |-> Cardinality(selected)]

\* max(1.0, avg_price * 1000 * (1 + carbon_penalty_weight / 10)) in GBP/MWh,
\* as a fraction: avg_price is in 1e-4 GBP/kWh and the weight in tenths
offer_price(avg_price, carbon_penalty_weight) ==
    LET num == avg_price.num * (100 + carbon_penalty_weight)
        den == avg_price.den * 1000
    IN  IF num < den THEN [num |-> 1, den |-> 1] ELSE [num |-> num, den |-> den]

\* the FlexOffer built for one flexible scheduled job
flex_offer(sj, timeline, carbon_lookup, price_lookup, carbon_penalty_weight) ==
    [offer_id       |-> "flex-" \o sj.job_id,
     cluster_id     |-> sj.metadata.cluster_id,
     power_kw       |-> sj.power_kw,
     duration_hours |-> sj.end_time - sj.start_time,
     earliest_start |-> sj.start_time,
     latest_end     |-> sj.end_time,
     min_activation_notice_minutes |-> MIN_ACTIVATION_NOTICE_MINUTES,
     price_gbp_per_mwh |->
        offer_price(average_value_between(price_lookup, timeline, sj.start_time, sj.end_time),
                    carbon_penalty_weight),
     carbon_intensity_cap_g_per_kwh |->
        average_value_between(carbon_lookup, timeline, sj.start_time, sj.end_time),
     tags |-> [job_id |-> sj.job_id, scheduled_start |-> isoformat(sj.start_time)]]

RECURSIVE flex_offers_from_schedule(_, _, _, _, _)
\* _flex_offers_from_schedule
flex_offers_from_schedule(scheduled, timeline, carbon_lookup, price_lookup, carbon_penalty_weight) ==
    IF scheduled = <<>> THEN <<>>
    ELSE LET rest == flex_offers_from_schedule(Tail(scheduled), timeline, carbon_lookup,
                                               price_lookup, carbon_penalty_weight)
         IN  IF ~ scheduled[1].is_flexible_offer THEN rest
             ELSE <<flex_offer(scheduled[1], timeline, carbon_lookup, price_lookup,
                               carbon_penalty_weight)>> \o rest

RECURSIVE place_jobs(_, _, _, _, _, _, _)
\* the for loop of optimize_schedule from sorted_jobs[i] on: the jobs it
\* appends to scheduled_jobs
place_jobs(sorted_jobs, i, timeline, price_lookup, carbon_lookup, power_usage, weights) ==
    IF i > Len(sorted_jobs) THEN <<>>
    ELSE LET job == sorted_jobs[i]
             sel == select_start_index(job, timeline, price_lookup, carbon_lookup,
                                       power_usage, weights)
         IN  IF sel.best_index = NoIndex
             THEN place_jobs(sorted_jobs, i + 1, timeline, price_lookup, carbon_lookup,
                             power_usage, weights)
             ELSE <<scheduled_job(job, timeline, price_lookup, carbon_lookup,
                                  sel.best_index, sel.best_lateness)>>
                  \o place_jobs(sorted_jobs, i + 1, timeline, price_lookup, carbon_lookup,
                                commit_power(job, power_usage, sel.best_index), weights)

\* optimize_schedule as one call: what it returns, or raised = TRUE for the
\* exception that leaves _build_timeline
optimize_schedule(jobs, carbon_series, price_series, weights) ==
    LET built == build_timeline(carbon_series, price_series)
        scheduled == place_jobs(sorted_jobs_of(jobs), 1, built.timeline, built.price_lookup,
                                built.carbon_lookup, [i \in DOMAIN built.timeline |-> 0],
                                weights)
    IN  IF jobs = <<>>
        THEN [raised |-> FALSE, scheduled_jobs |-> <<>>, flex_offers |-> <<>>]
        ELSE IF built.raised
        THEN [raised |-> TRUE, scheduled_jobs |-> <<>>, flex_offers |-> <<>>]
        ELSE IF built.timeline = <<>>
        THEN [raised |-> FALSE, scheduled_jobs |-> <<>>, flex_offers |-> <<>>]
        ELSE [raised |-> FALSE,
              scheduled_jobs |-> scheduled,
              flex_offers |-> flex_offers_from_schedule(scheduled, built.timeline,
                                  built.carbon_lookup, built.price_lookup,
                                  weights.carbon_penalty_weight)]

\* ScheduledJob.to_dict
scheduled_job_to_dict(sj) ==
    [sj EXCEPT !.start_time = isoformat(sj.start_time),
               !.end_time = isoformat(sj.end_time)]

\* FlexOffer.to_dict
flex_offer_to_dict(offer) ==
    [offer EXCEPT !.earliest_start = isoformat(offer.earliest_start),
                  !.latest_end = isoformat(offer.latest_end)]

---------------------------------------------------------------------------
(* State *)

VARIABLES
    \* optimize_schedule: its arguments
    jobs, carbon_series, price_series, weights,
    \* optimize_schedule: its locals and its position
    pc, timeline, price_lookup, carbon_lookup, power_usage, sorted_jobs, cursor,
    scheduled_jobs, flex_offers,
    \* ComputeAgentExecutor: self.jobs, in insertion order
    ledger,
    \* the request the Compute agent handled last, the ledger it found, the
    \* messages it emitted for it and whether execute let an exception out
    compute_request, ledger_before, compute_emitted, compute_raised,
    \* the request the Grid agent handled last, what its two upstream providers
    \* did during it, the messages it emitted and whether execute let an
    \* exception out
    grid_request, grid_upstream, grid_emitted, grid_raised,
    \* CoordinationAgentExecutor: the handler of each request in progress (by
    \* context id), self._last_schedule, self._last_flex_offers and whether
    \* self._strategy_llm is set
    coord, last_schedule, last_flex_offers, strategy_llm,
    \* the schedule and the offers of the success response emitted last
    last_success,
    \* CsvEventLogger: the position of each thread in append, the holder of
    \* each lock, whether the directory of the file exists, the file as the
    \* writes that reached it, the row each thread is writing and the number
    \* of rows it has appended
    logger_pc, logger_lock, logger_dir, logger_file, logger_row, logger_appended

engine_vars == <<jobs, carbon_series, price_series, weights, pc, timeline,
                 price_lookup, carbon_lookup, power_usage, sorted_jobs, cursor,
                 scheduled_jobs, flex_offers>>

compute_vars == <<ledger, compute_request, ledger_before, compute_emitted, compute_raised>>

grid_vars == <<grid_request, grid_upstream, grid_emitted, grid_raised>>

logger_vars == <<logger_pc, logger_lock, logger_dir, logger_file, logger_row,
                 logger_appended>>

coord_vars == <<coord, last_schedule, last_flex_offers, strategy_llm, last_success,
                logger_vars>>

agents_vars == <<compute_vars, grid_vars, coord_vars>>

vars == <<engine_vars, agents_vars>>

---------------------------------------------------------------------------
(* Inputs drawn by the initial states *)

\* 00:00, 00:15 and 00:30: timelines with aligned (0, 2) and with
\* misaligned (0, 1 / 1, 2 / 0, 1, 2) slot starts
Times == {0, 1, 2}

CarbonValues == {50, 300}

PriceValues == {100, 200}

CarbonPoints == [timestamp : Times, forecast_g_per_kwh : CarbonValues]

PricePoints == [timestamp : Times, system_buy_price_gbp_per_mwh : PriceValues]

SeqsUpTo(S, n) == UNION {[1 .. k -> S] : k \in 0 .. n}

\* series as the providers deliver them: ascending, one point per timestamp
IsAscending(series) ==
    \A i \in DOMAIN series : \A j \in DOMAIN series :
        i < j => series[i].timestamp < series[j].timestamp

AscendingSeries(Points) == {s \in SeqsUpTo(Points, MaxPts) : IsAscending(s)}

Job(id, arrival, power, duration, deadline, deferral, priority, penalty) ==
    [job_id |-> id, arrival_time |-> arrival, power_kw |-> power,
     duration_hours |-> duration, deadline |-> deadline,
     max_deferral_hours |-> deferral, priority |-> priority,
     sla_penalty_per_hour |-> penalty, cluster_id |-> "default"]

\* the jobs the engine is run on (times and durations in quarter hours)
JobPool ==
    << Job("job-01", 0, 600, 2, 2, 0, 1, 0),   \* half hour, no deferral
       Job("job-02", 0, 600, 2, 2, 1, 1, 1),   \* its flexible twin (same sort key)
       Job("job-03", 0, 400, 4, 2, 0, 0, 0),   \* one hour in a half-hour window, no deferral
       Job("job-04", 0, 400, 3, 2, 1, 0, 0),   \* 45 min (two slots), may end 15 min late
       Job("job-05", 1, 400, 1, 2, 1, 0, 5),   \* 15 min (one slot), arrives 00:15
       Job("job-06", 1, 600, 2, 4, 0, 2, 0) >> \* arrives 00:15, deadline 01:00, placed first

RECURSIVE SeqOfIndices(_)
\* the pool jobs with the given indices, in pool order
SeqOfIndices(S) ==
    IF S = {} THEN <<>>
    ELSE LET m == CHOOSE x \in S : \A y \in S : x <= y
         IN  <<JobPool[m]>> \o SeqOfIndices(S \ {m})

\* job lists: up to MaxJobs distinct jobs of the pool
JobLists ==
    {SeqOfIndices(S) : S \in {T \in SUBSET DOMAIN JobPool : Cardinality(T) <= MaxJobs}}

\* carbon_penalty_weight and sla_penalty_weight in tenths, max_power_kw in kW
WeightChoices ==
    {[carbon_penalty_weight |-> 5,   sla_penalty_weight |-> 10, max_power_kw |-> 1000],
     [carbon_penalty_weight |-> 100, sla_penalty_weight |-> 0,  max_power_kw |-> 1000],
     [carbon_penalty_weight |-> 50,  sla_penalty_weight |-> 10, max_power_kw |-> 1000]}

---------------------------------------------------------------------------
(* optimize_schedule as a state machine *)

\* the locals of optimize_schedule before it runs
EngineLocalsUnset ==
    /\ timeline = <<>>
    /\ price_lookup = EmptyLookup
    /\ carbon_lookup = EmptyLookup
    /\ power_usage = <<>>
    /\ sorted_jobs = <<>>
    /\ cursor = 1
    /\ scheduled_jobs = <<>>
    /\ flex_offers = <<>>

\* ComputeAgentExecutor.__init__ without a bootstrap file: an empty ledger
ComputeConstructed ==
    /\ ledger = <<>>
    /\ compute_request = [context_id |-> "", kind |-> "none",
                           payload |-> [keys |-> {}, command |-> "", jobs |-> <<>>,
                                        from |-> "", to |-> "", cluster_id |-> ""]]
    /\ ledger_before = <<>>
    /\ compute_emitted = <<>>
    /\ compute_raised = FALSE

NoPayload ==
    [keys |-> {}, command |-> "", jobs |-> <<>>, from |-> "", to |-> "", cluster_id |-> ""]

NoUpstream == [kind |-> "none", data |-> <<>>]

\* GridAgentExecutor.__init__: the agent keeps no state between requests
GridConstructed ==
    /\ grid_request = [context_id |-> "", kind |-> "none", payload |-> NoPayload]
    /\ grid_upstream = [carbon |-> NoUpstream, price |-> NoUpstream]
    /\ grid_emitted = <<>>
    /\ grid_raised = FALSE

ContextIds == {"ctx-1", "ctx-2"}

NoOptimization ==
    [keys |-> {}, non_numeric |-> {}, carbon_penalty_weight |-> 0,
     sla_penalty_weight |-> 0, max_power_kw |-> 0]

NoCoordPayload ==
    [keys |-> {}, command |-> "", from |-> "", to |-> "", cluster_id |-> "",
     optimization |-> NoOptimization]

NoStrategy ==
    [carbon_penalty_weight |-> 0, sla_penalty_weight |-> 0, max_power_kw |-> 0, reason |-> ""]

\* jobs_payload of _fetch_jobs before the compute RPC has returned
NoComputeReply == [kind |-> "none", keys |-> {}, status |-> "", jobs |-> <<>>]

\* decision of _decide_strategy before the oracle has been called
NoDecision ==
    [kind |-> "none", keys |-> {}, non_numeric |-> {},
     carbon_penalty_weight |-> 0, sla_penalty_weight |-> 0, max_power_kw |-> 0,
     strategy_reasoning |-> ""]

\* a handler slot of the Coordination agent with no request in it;
\* started_during is kept for the properties: the contexts whose handlers
\* were suspended when the request of this one arrived and still hold the
\* same request
HandlerIdle ==
    [pc |-> "idle",
     request |-> [context_id |-> "", kind |-> "none", payload |-> NoCoordPayload],
     window_start |-> 0, window_end |-> 0,
     carbon_series |-> <<>>, price_series |-> <<>>,
     jobs_payload |-> NoComputeReply, job_specs |-> <<>>,
     base |-> NoStrategy, decision |-> NoDecision,
     weights |-> [carbon_penalty_weight |-> 0, sla_penalty_weight |-> 0, max_power_kw |-> 0],
     log |-> <<>>, emitted |-> <<>>, raised |-> FALSE,
     started_during |-> {}]

\* no planning cycle has answered with status "success" yet
NoSuccess == [completed |-> FALSE, scheduled_jobs |-> <<>>, flex_offers |-> <<>>]

\* the threads that append, and the logger instance each of them uses: two
\* threads share an instance, the third has one of its own for the same file
Threads == {"thread-1", "thread-2", "thread-3"}

instance_of(thread) == IF thread = "thread-3" THEN "logger-b" ELSE "logger-a"

\* a lock of each instance in place of the lock of the class
lock_of_instance(instance) == instance

\* self._lock: the attribute of the class, one lock for all instances
lock_of(instance) == "CsvEventLogger._lock"

Locks == {"CsvEventLogger._lock", "logger-a", "logger-b"}

NoRow == [size |-> "none"]

HeaderWrite == [thread |-> "", row |-> 0, part |-> "header"]

\* CsvEventLogger.__init__ of every instance has returned: the directory
\* exists and the file holds the header
LoggerConstructed ==
    /\ logger_pc = [t \in Threads |-> "idle"]
    /\ logger_lock = [l \in Locks |-> "free"]
    /\ logger_dir = TRUE
    /\ logger_file = <<HeaderWrite>>
    /\ logger_row = [t \in Threads |-> NoRow]
    /\ logger_appended = [t \in Threads |-> 0]

\* CoordinationAgentExecutor.__init__, but for self._strategy_llm
CoordinationConstructed ==
    /\ coord = [c \in ContextIds |-> HandlerIdle]
    /\ last_schedule = <<>>
    /\ last_flex_offers = <<>>
    /\ last_success = NoSuccess
    /\ LoggerConstructed

\* the three agents as constructed in an environment that names no strategy
\* LLM (STRATEGY_LLM_PROVIDER / STRATEGY_LLM_MODEL unset)
AgentsConstructed ==
    /\ ComputeConstructed
    /\ GridConstructed
    /\ CoordinationConstructed
    /\ strategy_llm = FALSE

Init ==
    /\ jobs \in JobLists
    /\ carbon_series \in AscendingSeries(CarbonPoints)
    /\ price_series \in AscendingSeries(PricePoints)
    /\ weights \in WeightChoices
    /\ pc = "called"
    /\ EngineLocalsUnset
    /\ AgentsConstructed

\* engine.py 33-47: the early returns, the timeline, the sort
OptimizeStart ==
    /\ pc = "called"
    /\ LET built == build_timeline(carbon_series, price_series)
       IN  IF jobs = <<>>
           THEN /\ pc' = "returned"
                /\ UNCHANGED <<timeline, price_lookup, carbon_lookup, power_usage, sorted_jobs>>
           ELSE IF built.raised
           THEN /\ pc' = "raised"
                /\ UNCHANGED <<timeline, price_lookup, carbon_lookup, power_usage, sorted_jobs>>
           ELSE /\ timeline' = built.timeline
                /\ price_lookup' = built.price_lookup
                /\ carbon_lookup' = built.carbon_lookup
                /\ IF built.timeline = <<>>
                   THEN /\ pc' = "returned"
                        /\ UNCHANGED <<power_usage, sorted_jobs>>
                   ELSE /\ pc' = "placing"
                        /\ power_usage' = [i \in DOMAIN built.timeline |-> 0]
                        /\ sorted_jobs' = sorted_jobs_of(jobs)
    /\ UNCHANGED <<jobs, carbon_series, price_series, weights, cursor, scheduled_jobs, flex_offers>>
    /\ UNCHANGED agents_vars

\* engine.py 49-95: one iteration of the placement loop
PlaceJob ==
    /\ pc = "placing"
    /\ cursor <= Len(sorted_jobs)
    /\ LET job == sorted_jobs[cursor]
           sel == select_start_index(job, timeline, price_lookup, carbon_lookup,
                                     power_usage, weights)
       IN  IF sel.best_index = NoIndex
           THEN UNCHANGED <<power_usage, scheduled_jobs>>
           ELSE /\ power_usage' = commit_power(job, power_usage, sel.best_index)
                /\ scheduled_jobs' = Append(scheduled_jobs,
                       scheduled_job(job, timeline, price_lookup, carbon_lookup,
                                     sel.best_index, sel.best_lateness))
    /\ cursor' = cursor + 1
    /\ UNCHANGED <<jobs, carbon_series, price_series, weights, pc, timeline,
                   price_lookup, carbon_lookup, sorted_jobs, flex_offers>>
    /\ UNCHANGED agents_vars

\* engine.py 97-103: the flex offers and the return
ReturnSchedule ==
    /\ pc = "placing"
    /\ cursor > Len(sorted_jobs)
    /\ flex_offers' = flex_offers_from_schedule(scheduled_jobs, timeline, carbon_lookup,
                                                price_lookup, weights.carbon_penalty_weight)
    /\ pc' = "returned"
    /\ UNCHANGED <<jobs, carbon_series, price_series, weights, timeline, price_lookup,
                   carbon_lookup, power_usage, sorted_jobs, cursor, scheduled_jobs>>
    /\ UNCHANGED agents_vars

Next == OptimizeStart \/ PlaceJob \/ ReturnSchedule

Spec == Init /\ [][Next]_vars

---------------------------------------------------------------------------
(* _build_timeline on its own, on series in any order and with repeated    *)
(* timestamps                                                              *)

AnySeries(Points) == SeqsUpTo(Points, MaxPts)

InitTimeline ==
    /\ jobs = <<>>
    /\ carbon_series \in AnySeries(CarbonPoints)
    /\ price_series \in AnySeries(PricePoints)
    /\ weights = [carbon_penalty_weight |-> 5, sla_penalty_weight |-> 10, max_power_kw |-> 1000]
    /\ pc = "timeline_called"
    /\ EngineLocalsUnset
    /\ AgentsConstructed

\* engine.py 106-131
BuildTimeline ==
    /\ pc = "timeline_called"
    /\ LET built == build_timeline(carbon_series, price_series)
       IN  /\ pc' = IF built.raised THEN "timeline_raised" ELSE "timeline_built"
           /\ timeline' = built.timeline
           /\ price_lookup' = built.price_lookup
           /\ carbon_lookup' = built.carbon_lookup
    /\ UNCHANGED <<jobs, carbon_series, price_series, weights, power_usage, sorted_jobs,
                   cursor, scheduled_jobs, flex_offers>>
    /\ UNCHANGED agents_vars

NextTimeline == BuildTimeline

SpecTimeline == InitTimeline /\ [][NextTimeline]_vars

---------------------------------------------------------------------------
(* Wire forms: src/src/domain/models.py.  A JSON object is a record with   *)
(* a field per key the model uses and the set "keys" of the keys that are  *)
(* present; the field of an absent key is never read.                      *)

\* the instants that occur in jobs and windows
ClockTimes == 0 .. 4

\* the other spelling parse_datetime accepts
isoformat_offset(t) ==
    "2024-01-01T" \o TwoDigits(t \div 4) \o ":" \o TwoDigits((t % 4) * 15) \o ":00+00:00"

\* the texts datetime.fromisoformat accepts, with the instant each denotes
ParsedTexts ==
    {<<isoformat(t), t>> : t \in ClockTimes} \cup {<<isoformat_offset(t), t>> : t \in ClockTimes}

\* parse_datetime(raw); raised stands for the ValueError of fromisoformat
parse_datetime(raw) ==
    IF \E p \in ParsedTexts : p[1] = raw
    THEN [raised |-> FALSE, value |-> (CHOOSE p \in ParsedTexts : p[1] = raw)[2]]
    ELSE [raised |-> TRUE, value |-> 0]

JobKeys == {"job_id", "arrival_time", "power_kw", "duration_hours", "deadline",
            "max_deferral_hours", "priority", "sla_penalty_per_hour", "cluster_id"}

\* JobSpec.to_dict (workload_type and metadata, which nothing reads, left out)
job_to_dict(job) ==
    [keys |-> JobKeys,
     job_id |-> job.job_id,
     arrival_time |-> isoformat(job.arrival_time),
     power_kw |-> job.power_kw,
     duration_hours |-> job.duration_hours,
     deadline |-> isoformat(job.deadline),
     max_deferral_hours |-> job.max_deferral_hours,
     priority |-> job.priority,
     sla_penalty_per_hour |-> job.sla_penalty_per_hour,
     cluster_id |-> job.cluster_id]

\* JobSpec.from_dict; raised stands for the KeyError of a missing required key
\* or the ValueError of a timestamp that does not parse
job_from_dict(payload) ==
    LET arrival  == parse_datetime(payload.arrival_time)
        deadline == parse_datetime(payload.deadline)
        failed   == [raised |-> TRUE, job |-> Job("", 0, 0, 0, 0, 0, 0, 0)]
    IN  IF ~ ({"job_id", "arrival_time", "power_kw", "duration_hours", "deadline"}
                \subseteq payload.keys)
        THEN failed
        ELSE IF arrival.raised \/ deadline.raised
        THEN failed
        ELSE [raised |-> FALSE,
              job |-> [job_id |-> payload.job_id,
                       arrival_time |-> arrival.value,
                       power_kw |-> payload.power_kw,
                       duration_hours |-> payload.duration_hours,
                       deadline |-> deadline.value,
                       max_deferral_hours |->
                           IF "max_deferral_hours" \in payload.keys
                           THEN payload.max_deferral_hours ELSE 0,
                       priority |->
                           IF "priority" \in payload.keys THEN payload.priority ELSE 0,
                       sla_penalty_per_hour |->
                           IF "sla_penalty_per_hour" \in payload.keys
                           THEN payload.sla_penalty_per_hour ELSE 0,
                       cluster_id |->
                           IF "cluster_id" \in payload.keys
                           THEN payload.cluster_id ELSE "default"]]

---------------------------------------------------------------------------
(* Compute agent: src/src/compute_agent/agent.py *)

\* self.jobs is a dict: the model keeps its values in insertion order
ledger_ids(l) == {l[i].job_id : i \in DOMAIN l}

\* self.jobs[job_id]
ledger_get(l, id) == l[CHOOSE i \in DOMAIN l : l[i].job_id = id]

\* a variant in which the first write of a job_id wins
ledger_put_first_wins(l, job) ==
    IF job.job_id \in ledger_ids(l) THEN l ELSE Append(l, job)

\* self.jobs[job.job_id] = job: replaces the entry in place or adds one
ledger_put(l, job) ==
    IF job.job_id \in ledger_ids(l)
    THEN [i \in DOMAIN l |-> IF l[i].job_id = job.job_id THEN job ELSE l[i]]
    ELSE Append(l, job)

NoResponse == [status |-> "none"]

RECURSIVE ingest_loop(_, _, _, _)
\* the for loop of _handle_ingest from entry i on, and its return
ingest_loop(l, jobs_payload, i, ingested) ==
    IF i > Len(jobs_payload)
    THEN [raised |-> FALSE, ledger |-> l,
          response |-> [status |-> "ok", num_jobs_ingested |-> ingested,
                        total_jobs |-> Cardinality(ledger_ids(l))]]
    ELSE LET parsed == job_from_dict(jobs_payload[i])
         IN  IF parsed.raised
             THEN [raised |-> TRUE, ledger |-> l, response |-> NoResponse]
             ELSE ingest_loop(ledger_put(l, parsed.job), jobs_payload, i + 1, ingested + 1)

\* _handle_ingest
handle_ingest(l, payload) ==
    ingest_loop(l, IF "jobs" \in payload.keys THEN payload.jobs ELSE <<>>, 1, 0)

\* a variant whose slack is not floored at zero
flex_view_raw_slack(job, window_start, window_end) ==
    LET earliest_start == Max(job.arrival_time, window_start)
        latest_end     == Min(job.deadline, window_end)
    IN  [job |-> job_to_dict(job),
         earliest_start |-> isoformat(earliest_start),
         latest_end |-> isoformat(latest_end),
         slack_hours |-> (latest_end - earliest_start) - job.duration_hours,
         is_flexible |-> is_flexible(job)]

\* one entry of jobs_view: the fields of job.to_dict() are kept together under
\* "job" (slack_hours in quarter hours: round(.., 2) changes no multiple of 0.25)
flex_view(job, window_start, window_end) ==
    LET earliest_start == Max(job.arrival_time, window_start)
        latest_end     == Min(job.deadline, window_end)
    IN  [job |-> job_to_dict(job),
         earliest_start |-> isoformat(earliest_start),
         latest_end |-> isoformat(latest_end),
         slack_hours |-> Max(0, (latest_end - earliest_start) - job.duration_hours),
         is_flexible |-> is_flexible(job)]

RECURSIVE jobs_view(_, _, _, _)
\* the for loop of _handle_flex_profile
jobs_view(l, cluster_filter, window_start, window_end) ==
    IF l = <<>> THEN <<>>
    ELSE LET job  == l[1]
             rest == jobs_view(Tail(l), cluster_filter, window_start, window_end)
         IN  IF cluster_filter # "" /\ job.cluster_id # cluster_filter THEN rest
             ELSE IF job.deadline < window_start \/ job.arrival_time > window_end THEN rest
             ELSE <<flex_view(job, window_start, window_end)>> \o rest

\* _handle_flex_profile; raised stands for the KeyError of a missing from / to
\* or the ValueError of one that does not parse
handle_flex_profile(l, payload) ==
    LET window_start == parse_datetime(payload.from)
        window_end   == parse_datetime(payload.to)
        cluster_filter == IF "cluster_id" \in payload.keys THEN payload.cluster_id ELSE ""
    IN  IF "from" \notin payload.keys \/ window_start.raised
        THEN [raised |-> TRUE, ledger |-> l, response |-> NoResponse]
        ELSE IF "to" \notin payload.keys \/ window_end.raised
        THEN [raised |-> TRUE, ledger |-> l, response |-> NoResponse]
        ELSE [raised |-> FALSE, ledger |-> l,
              response |-> [status |-> "ok",
                            jobs |-> jobs_view(l, cluster_filter,
                                               window_start.value, window_end.value)]]

\* a request without a command taken for a request to ingest
command_of_ingest_by_default(payload) ==
    IF "command" \in payload.keys THEN payload.command ELSE "ingest_jobs"

\* payload.get("command"), as the f-strings of the error messages print it
command_of(payload) == IF "command" \in payload.keys THEN payload.command ELSE "None"

\* a message built without the context id of the request
text_message_without_context(context_id, response) == [context_id |-> "", body |-> response]

\* new_agent_text_message(json.dumps(response), context_id=...)
text_message(context_id, response) == [context_id |-> context_id, body |-> response]

\* ComputeAgentExecutor.execute: the ledger it leaves, the messages it
\* enqueues and whether an exception leaves it
compute_execute(l, request) ==
    LET payload == request.payload
        command == command_of(payload)
        handled == IF command = "ingest_jobs" THEN handle_ingest(l, payload)
                   ELSE IF command = "get_flexibility_profile"
                        THEN handle_flex_profile(l, payload)
                   ELSE [raised |-> FALSE, ledger |-> l,
                         response |-> [status |-> "error",
                                       message |-> "Unknown command '" \o command \o "'"]]
    IN  IF request.kind = "text"            \* json.loads raises JSONDecodeError
        THEN [raised |-> FALSE, ledger |-> l,
              emitted |-> <<text_message(request.context_id,
                               [status |-> "error", message |-> "Invalid JSON payload"])>>]
        ELSE IF request.kind # "object"     \* payload.get raises AttributeError
        THEN [raised |-> TRUE, ledger |-> l, emitted |-> <<>>]
        ELSE IF handled.raised
        THEN [raised |-> TRUE, ledger |-> handled.ledger, emitted |-> <<>>]
        ELSE [raised |-> FALSE, ledger |-> handled.ledger,
              emitted |-> <<text_message(request.context_id, handled.response)>>]

---------------------------------------------------------------------------
(* Requests drawn for the Compute agent *)

\* the jobs clients submit: job-01 in an earlier and a later version, and a
\* job of another cluster
LedgerJobs ==
    {Job("job-01", 0, 600, 2, 2, 0, 1, 0),
     Job("job-01", 1, 400, 1, 2, 1, 0, 5),
     [Job("job-02", 2, 400, 1, 4, 0, 2, 0) EXCEPT !.cluster_id = "gpu"]}

WellFormedWireJobs == {job_to_dict(job) : job \in LedgerJobs}

\* a job without job_id, and one whose deadline is no timestamp
MalformedWireJobs ==
    {[job_to_dict(Job("job-01", 0, 600, 2, 2, 0, 1, 0)) EXCEPT !.keys = @ \ {"job_id"}],
     [job_to_dict(Job("job-02", 0, 600, 2, 2, 1, 1, 1)) EXCEPT !.deadline = "soon"]}

WireJobs == WellFormedWireJobs \cup MalformedWireJobs

Payload(keys, command, jobs_, from, to, cluster) ==
    [keys |-> keys, command |-> command, jobs |-> jobs_, from |-> from, to |-> to,
     cluster_id |-> cluster]

IngestPayloads ==
    {Payload({"command", "jobs"}, "ingest_jobs", js, "", "", "") :
        js \in SeqsUpTo(WireJobs, MaxJobs)}
    \cup {Payload({"command"}, "ingest_jobs", <<>>, "", "", "")}

WindowTexts == {isoformat(0), isoformat(2), isoformat_offset(4), "tomorrow"}

ProfilePayloads ==
    {Payload({"command", "from", "to"}, "get_flexibility_profile", <<>>, from, to, "") :
        from \in WindowTexts, to \in WindowTexts}
    \cup {Payload({"command", "from", "to", "cluster_id"}, "get_flexibility_profile", <<>>,
                  isoformat(0), isoformat(2), cluster) : cluster \in {"gpu", "default"}}
    \cup {Payload({"command", "to"}, "get_flexibility_profile", <<>>, "", isoformat(2), "")}

OtherPayloads ==
    {Payload({"command"}, "run_caco_planning", <<>>, "", "", ""),
     Payload({}, "", <<>>, "", "", "")}

ComputeRequests ==
    {[context_id |-> c, kind |-> "object", payload |-> p] :
        c \in ContextIds, p \in IngestPayloads \cup ProfilePayloads \cup OtherPayloads}
    \cup {[context_id |-> c, kind |-> k, payload |-> Payload({}, "", <<>>, "", "", "")] :
        c \in ContextIds, k \in {"text", "array"}}

---------------------------------------------------------------------------
(* The Compute agent as a state machine: one request at a time, since no   *)
(* handler of the agent awaits between reading the request and emitting    *)

InitCompute ==
    /\ jobs = <<>>
    /\ carbon_series = <<>>
    /\ price_series = <<>>
    /\ weights = [carbon_penalty_weight |-> 5, sla_penalty_weight |-> 10, max_power_kw |-> 1000]
    /\ pc = "idle"
    /\ EngineLocalsUnset
    /\ AgentsConstructed

\* compute_agent/agent.py 45-62 for one request
compute_handles(request) ==
    LET done == compute_execute(ledger, request)
    IN  /\ compute_request' = request
        /\ ledger_before' = ledger
        /\ ledger' = done.ledger
        /\ compute_emitted' = done.emitted
        /\ compute_raised' = done.raised
        /\ UNCHANGED <<engine_vars, grid_vars, coord_vars>>

ComputeExecute == \E request \in ComputeRequests : compute_handles(request)

NextCompute == ComputeExecute

SpecCompute == InitCompute /\ [][NextCompute]_vars

---------------------------------------------------------------------------
(* Upstream providers: src/src/data_sources.  Carbon forecasts are held in *)
(* quarters of a g/kWh and prices in thirds of a GBP/MWh, so that the      *)
(* synthetic series 80 + 20 * (slot % 16) / 16 and 100 + 20 * (slot % 12)  *)
(* / 12 are integers.                                                      *)

\* periods=48 of the carbon fallback
FALLBACK_PERIODS == 48

\* timedelta(minutes=30), in quarter hours
HALF_HOUR == 2

\* value.replace(minute=0, second=0, microsecond=0)
replace_minute_zero(t) == t - (t % 4)

\* CarbonIntensityClient._fallback_series
carbon_fallback_series(start, periods) ==
    LET base == replace_minute_zero(start)
    IN  [k \in 1 .. periods |->
            LET slot     == k - 1
                forecast == 320 + 5 * (slot % 16)
            IN  [timestamp |-> base + HALF_HOUR * slot,
                 forecast_g_per_kwh |-> forecast,
                 index |-> IF forecast < 400 THEN "low" ELSE "moderate"]]

\* CarbonIntensityClient.get_forecast_24h under one upstream outcome: every
\* exception of the request, of raise_for_status, of response.json(), of
\* payload.get and of _parse_entry ends in the fallback; a body without
\* entries is returned as it is
get_forecast_24h(start, upstream) ==
    IF upstream.kind # "ok" THEN carbon_fallback_series(start, FALLBACK_PERIODS)
    ELSE IF \E i \in DOMAIN upstream.data : parse_datetime(upstream.data[i].timestamp).raised
    THEN carbon_fallback_series(start, FALLBACK_PERIODS)
    ELSE [i \in DOMAIN upstream.data |->
            [timestamp |-> parse_datetime(upstream.data[i].timestamp).value,
             forecast_g_per_kwh |-> upstream.data[i].value,
             index |-> "unknown"]]

\* BMRSClient._fallback_series
price_fallback_series(start, end) ==
    LET start_slot == replace_minute_zero(start)
        end_slot   == replace_minute_zero(end)
        count      == IF end_slot < start_slot THEN 0
                      ELSE (end_slot - start_slot) \div HALF_HOUR + 1
    IN  [k \in 1 .. count |->
            LET slot      == k - 1
                buy_price == 300 + 5 * (slot % 12)
            IN  [timestamp |-> start_slot + HALF_HOUR * slot,
                 system_buy_price_gbp_per_mwh |-> buy_price,
                 system_sell_price_gbp_per_mwh |-> buy_price - 90]]

\* BMRSClient.get_system_prices under one upstream outcome (the records of
\* the model carry no sell price: it reads as 0)
get_system_prices(start, end, upstream) ==
    IF upstream.kind # "ok" THEN price_fallback_series(start, end)
    ELSE IF upstream.data = <<>> THEN price_fallback_series(start, end)
    ELSE IF \E i \in DOMAIN upstream.data : parse_datetime(upstream.data[i].timestamp).raised
    THEN price_fallback_series(start, end)
    ELSE [i \in DOMAIN upstream.data |->
            [timestamp |-> parse_datetime(upstream.data[i].timestamp).value,
             system_buy_price_gbp_per_mwh |-> upstream.data[i].value,
             system_sell_price_gbp_per_mwh |-> 0]]

---------------------------------------------------------------------------
(* Grid agent: src/src/grid_agent/agent.py *)

\* CarbonPoint.to_dict
carbon_point_to_dict(point) ==
    [timestamp |-> isoformat(point.timestamp),
     forecast_g_per_kwh |-> point.forecast_g_per_kwh,
     index |-> point.index]

\* PricePoint.to_dict
price_point_to_dict(point) ==
    [timestamp |-> isoformat(point.timestamp),
     system_buy_price_gbp_per_mwh |-> point.system_buy_price_gbp_per_mwh,
     system_sell_price_gbp_per_mwh |-> point.system_sell_price_gbp_per_mwh]

\* the points of the raw carbon series inside the window, or the raw series
\* when there is none
carbon_in_window(carbon_series_raw, window_start, window_end) ==
    LET inside == SelectSeq(carbon_series_raw,
                            LAMBDA point : window_start <= point.timestamp
                                           /\ point.timestamp <= window_end)
    IN  IF inside # <<>> THEN inside ELSE carbon_series_raw

\* the part of GridAgentExecutor.execute after the window is parsed
grid_forecast(window_start, window_end, upstream) ==
    LET carbon_series_raw == get_forecast_24h(window_start, upstream.carbon)
        prices            == get_system_prices(window_start, window_end, upstream.price)
        carbon            == carbon_in_window(carbon_series_raw, window_start, window_end)
    IN  [carbon_series |-> [i \in DOMAIN carbon |-> carbon_point_to_dict(carbon[i])],
         price_series  |-> [i \in DOMAIN prices |-> price_point_to_dict(prices[i])]]

\* GridAgentExecutor.execute reaches its upstream providers for the request
grid_reaches_upstream(request) ==
    /\ request.kind = "object"
    /\ "command" \in request.payload.keys
    /\ request.payload.command = "get_grid_forecast"
    /\ {"from", "to"} \subseteq request.payload.keys
    /\ ~ parse_datetime(request.payload.from).raised
    /\ ~ parse_datetime(request.payload.to).raised

\* GridAgentExecutor.execute: the messages it enqueues and whether an
\* exception leaves it
grid_execute(request, upstream) ==
    LET payload == request.payload
        command == command_of(payload)
        error(message) ==
            [raised |-> FALSE,
             emitted |-> <<text_message(request.context_id,
                              [status |-> "error", message |-> message])>>]
    IN  IF request.kind = "text"            \* json.loads raises JSONDecodeError
        THEN error("Invalid JSON payload")
        ELSE IF request.kind # "object"     \* payload.get raises AttributeError
        THEN [raised |-> TRUE, emitted |-> <<>>]
        ELSE IF command # "get_grid_forecast"
        THEN error("Unsupported command '" \o command \o "'")
        ELSE IF ~ grid_reaches_upstream(request)
        THEN error("Invalid window")
        ELSE [raised |-> FALSE,
              emitted |-> <<text_message(request.context_id,
                               grid_forecast(parse_datetime(payload.from).value,
                                             parse_datetime(payload.to).value,
                                             upstream))>>]

---------------------------------------------------------------------------
(* Requests and upstream outcomes drawn for the Grid agent *)

Entry(text, value) == [timestamp |-> text, value |-> value]

\* a request that fails, a non-success status, a body that is no JSON, a JSON
\* body that is no object
FailedUpstreams ==
    {[kind |-> k, data |-> <<>>] :
        k \in {"network_error", "bad_status", "bad_body", "not_object"}}

\* a body with no entries, one with two entries and one with an entry whose
\* timestamp does not parse
CarbonUpstreams ==
    FailedUpstreams
    \cup {[kind |-> "ok", data |-> d] :
            d \in {<<>>,
                   <<Entry(isoformat(0), 600), Entry(isoformat(2), 1000)>>,
                   <<Entry("soon", 600)>>}}

PriceUpstreams ==
    FailedUpstreams
    \cup {[kind |-> "ok", data |-> d] :
            d \in {<<>>,
                   <<Entry(isoformat(0), 270), Entry(isoformat(2), 450)>>,
                   <<Entry("soon", 270)>>}}

GridWindowTexts == {isoformat(0), isoformat(1), isoformat(3), isoformat(4), "tomorrow"}

GridPayloads ==
    {Payload({"command", "from", "to"}, "get_grid_forecast", <<>>, from, to, "") :
        from \in GridWindowTexts, to \in GridWindowTexts}
    \cup {Payload({"command", "to"}, "get_grid_forecast", <<>>, "", isoformat(4), ""),
          Payload({"command", "from"}, "get_grid_forecast", <<>>, isoformat(0), "", ""),
          Payload({"command"}, "run_caco_planning", <<>>, "", "", ""),
          Payload({}, "", <<>>, "", "", "")}

GridRequests ==
    {[context_id |-> c, kind |-> "object", payload |-> p] :
        c \in ContextIds, p \in GridPayloads}
    \cup {[context_id |-> c, kind |-> k, payload |-> NoPayload] :
        c \in ContextIds, k \in {"text", "array"}}

---------------------------------------------------------------------------
(* The Grid agent as a state machine: it keeps no state between requests,  *)
(* so requests are taken one after the other: a request is handled, its    *)
(* event queue is read and closed, and the next request finds the agent as *)
(* it was constructed                                                      *)

InitGrid ==
    /\ jobs = <<>>
    /\ carbon_series = <<>>
    /\ price_series = <<>>
    /\ weights = [carbon_penalty_weight |-> 5, sla_penalty_weight |-> 10, max_power_kw |-> 1000]
    /\ pc = "idle"
    /\ EngineLocalsUnset
    /\ AgentsConstructed

GridIdle == grid_request.kind = "none"

\* grid_agent/agent.py 48-82 for one request, with the outcome of each
\* upstream call
grid_handles(request, upstream) ==
    LET done == grid_execute(request, upstream)
    IN  /\ grid_request' = request
        /\ grid_upstream' = upstream
        /\ grid_emitted' = done.emitted
        /\ grid_raised' = done.raised
        /\ UNCHANGED <<engine_vars, compute_vars, coord_vars>>

GridExecute ==
    /\ GridIdle
    /\ \E request \in GridRequests :
        \E upstream \in IF grid_reaches_upstream(request)
                        THEN [carbon : CarbonUpstreams, price : PriceUpstreams]
                        ELSE {[carbon |-> NoUpstream, price |-> NoUpstream]} :
            grid_handles(request, upstream)

\* the request handler has read the event queue of the request and drops it
GridClose ==
    /\ ~ GridIdle
    /\ grid_request' = [context_id |-> "", kind |-> "none", payload |-> NoPayload]
    /\ grid_upstream' = [carbon |-> NoUpstream, price |-> NoUpstream]
    /\ grid_emitted' = <<>>
    /\ grid_raised' = FALSE
    /\ UNCHANGED <<engine_vars, compute_vars, coord_vars>>

NextGrid == GridExecute \/ GridClose

SpecGrid == InitGrid /\ [][NextGrid]_vars

---------------------------------------------------------------------------
(* Coordination agent: src/src/coordination_agent/agent.py.  Weights are   *)
(* in tenths, as in the engine; replies of the other agents are what       *)
(* my_a2a.send_message hands back, whoever serves the endpoint.            *)

\* horizon_hours when the payload has none: 24 hours, in quarter hours
DEFAULT_HORIZON == 96

\* self._default_strategy: 0.5, 1.0 and 10000.0
DefaultStrategy ==
    [carbon_penalty_weight |-> 5, sla_penalty_weight |-> 10, max_power_kw |-> 10000]

\* CarbonPoint.from_dict over the entries of a reply; raised stands for the
\* KeyError / ValueError of a bad entry
carbon_points_from(entries) ==
    IF \E i \in DOMAIN entries : parse_datetime(entries[i].timestamp).raised
    THEN [raised |-> TRUE, points |-> <<>>]
    ELSE [raised |-> FALSE,
          points |-> [i \in DOMAIN entries |->
                        [timestamp |-> parse_datetime(entries[i].timestamp).value,
                         forecast_g_per_kwh |-> entries[i].forecast_g_per_kwh]]]

\* PricePoint.from_dict over the entries of a reply
price_points_from(entries) ==
    IF \E i \in DOMAIN entries : parse_datetime(entries[i].timestamp).raised
    THEN [raised |-> TRUE, points |-> <<>>]
    ELSE [raised |-> FALSE,
          points |-> [i \in DOMAIN entries |->
                        [timestamp |-> parse_datetime(entries[i].timestamp).value,
                         system_buy_price_gbp_per_mwh |->
                             entries[i].system_buy_price_gbp_per_mwh]]]

\* JobSpec.from_dict over the jobs of a flexibility profile
job_specs_from(entries) ==
    IF \E i \in DOMAIN entries : job_from_dict(entries[i].job).raised
    THEN [raised |-> TRUE, jobs |-> <<>>]
    ELSE [raised |-> FALSE, jobs |-> [i \in DOMAIN entries |-> job_from_dict(entries[i].job).job]]

\* the part of _fetch_grid_series after send_message: raised stands for the
\* exception of a failed call, of json.loads or of from_dict
fetch_grid_series(reply) ==
    LET carbon == carbon_points_from(IF "carbon_series" \in reply.keys
                                     THEN reply.carbon_series ELSE <<>>)
        price  == price_points_from(IF "price_series" \in reply.keys
                                    THEN reply.price_series ELSE <<>>)
    IN  IF reply.kind # "object" \/ carbon.raised \/ price.raised
        THEN [raised |-> TRUE, carbon_series |-> <<>>, price_series |-> <<>>]
        ELSE [raised |-> FALSE, carbon_series |-> carbon.points, price_series |-> price.points]

\* the part of _fetch_jobs after send_message: raised stands for the
\* exception of a failed call or of json.loads, for the RuntimeError of a
\* status other than "ok" and for the exception of from_dict
fetch_jobs(reply) ==
    LET specs == job_specs_from(IF "jobs" \in reply.keys THEN reply.jobs ELSE <<>>)
    IN  IF reply.kind # "object" THEN [raised |-> TRUE, jobs |-> <<>>]
        ELSE IF "status" \notin reply.keys \/ reply.status # "ok"
        THEN [raised |-> TRUE, jobs |-> <<>>]
        ELSE specs

\* a base strategy that takes the weights of the payload only when it gives
\* all three
base_strategy_all_or_nothing(optimization_cfg) ==
    LET all_given == {"carbon_penalty_weight", "sla_penalty_weight", "max_power_kw"}
                        \subseteq optimization_cfg.keys
        chosen    == IF all_given THEN optimization_cfg ELSE DefaultStrategy
    IN  IF optimization_cfg.non_numeric \cap optimization_cfg.keys # {}
        THEN [raised |-> TRUE, strategy |-> NoStrategy]
        ELSE [raised |-> FALSE,
              strategy |-> [carbon_penalty_weight |-> chosen.carbon_penalty_weight,
                            sla_penalty_weight |-> chosen.sla_penalty_weight,
                            max_power_kw |-> chosen.max_power_kw,
                            reason |-> "Static weights from payload"]]

\* the base strategy of _decide_strategy; raised stands for the ValueError of
\* float() on a value that is no number
base_strategy(optimization_cfg) ==
    LET value(key, given, default) == IF key \in optimization_cfg.keys THEN given ELSE default
    IN  IF optimization_cfg.non_numeric \cap optimization_cfg.keys # {}
        THEN [raised |-> TRUE, strategy |-> NoStrategy]
        ELSE [raised |-> FALSE,
              strategy |->
                [carbon_penalty_weight |->
                    value("carbon_penalty_weight", optimization_cfg.carbon_penalty_weight,
                          DefaultStrategy.carbon_penalty_weight),
                 sla_penalty_weight |->
                    value("sla_penalty_weight", optimization_cfg.sla_penalty_weight,
                          DefaultStrategy.sla_penalty_weight),
                 max_power_kw |->
                    value("max_power_kw", optimization_cfg.max_power_kw,
                          DefaultStrategy.max_power_kw),
                 reason |-> "Static weights from payload"]]

\* payload.get("optimization", {...}): the literal default of line 87
optimization_cfg_of(payload) ==
    IF "optimization" \in payload.keys THEN payload.optimization
    ELSE [keys |-> {"carbon_penalty_weight", "sla_penalty_weight", "max_power_kw"},
          non_numeric |-> {},
          carbon_penalty_weight |-> 5, sla_penalty_weight |-> 10, max_power_kw |-> 10000]

\* a clamp that bounds from above only
clamp_from_above(value, min_value, max_value) == Min(max_value, value)

\* clamp of _decide_strategy
clamp(value, min_value, max_value) == Max(min_value, Min(max_value, value))

\* the part of _decide_strategy after the oracle call: raised stands for the
\* AttributeError of a reply that is no JSON object and the ValueError of a
\* field that is no number, both outside the try block
strategy_from_oracle(base, oracle) ==
    LET value(key, given, default) == IF key \in oracle.keys THEN given ELSE default
    IN  IF oracle.kind \in {"raises", "not_json"}
        THEN [raised |-> FALSE, strategy |-> [base EXCEPT !.reason = "LLM unavailable"]]
        ELSE IF oracle.kind # "object" \/ oracle.non_numeric \cap oracle.keys # {}
        THEN [raised |-> TRUE, strategy |-> NoStrategy]
        ELSE [raised |-> FALSE,
              strategy |->
                [carbon_penalty_weight |->
                    clamp(value("carbon_penalty_weight", oracle.carbon_penalty_weight,
                                base.carbon_penalty_weight), 0, 100),
                 sla_penalty_weight |->
                    clamp(value("sla_penalty_weight", oracle.sla_penalty_weight,
                                base.sla_penalty_weight), 0, 100),
                 max_power_kw |->
                    Max(1000, value("max_power_kw", oracle.max_power_kw, base.max_power_kw)),
                 reason |-> IF "strategy_reasoning" \in oracle.keys
                            THEN oracle.strategy_reasoning ELSE base.reason]]

\* the handler has ended with an exception: nothing is emitted
handler_raised(h) == [h EXCEPT !.pc = "done", !.raised = TRUE]

\* self._emit(event_queue, context.context_id, response), the last statement
\* of execute
handler_emitted(h, response) ==
    [h EXCEPT !.pc = "done",
              !.emitted = Append(@, text_message(h.request.context_id, response))]

\* a planning cycle that fills the cache only while it is empty
finish_planning_first_wins(h, strategy, cache) ==
    LET passed == [carbon_penalty_weight |-> strategy.carbon_penalty_weight,
                   sla_penalty_weight |-> strategy.sla_penalty_weight,
                   max_power_kw |-> strategy.max_power_kw]
        result == optimize_schedule(h.job_specs, h.carbon_series, h.price_series, passed)
        called == [h EXCEPT !.log = Append(@, "engine"), !.weights = passed]
    IN  IF result.raised
        THEN [handler |-> handler_raised(called), cache |-> cache]
        ELSE [handler |->
                handler_emitted(called,
                    [status |-> "success",
                     window |-> [from |-> isoformat(h.window_start),
                                 to |-> isoformat(h.window_end),
                                 region |-> "GB"],
                     scheduled_jobs |-> [i \in DOMAIN result.scheduled_jobs |->
                                            scheduled_job_to_dict(result.scheduled_jobs[i])],
                     flex_offers |-> [i \in DOMAIN result.flex_offers |->
                                            flex_offer_to_dict(result.flex_offers[i])],
                     strategy |-> strategy]),
              cache |-> IF cache.last_schedule = <<>> /\ cache.last_flex_offers = <<>>
                        THEN [last_schedule |-> result.scheduled_jobs,
                              last_flex_offers |-> result.flex_offers]
                        ELSE cache]

\* a planning cycle that answers and leaves the cache as it was
finish_planning_keeps_cache(h, strategy, cache) ==
    LET passed == [carbon_penalty_weight |-> strategy.carbon_penalty_weight,
                   sla_penalty_weight |-> strategy.sla_penalty_weight,
                   max_power_kw |-> strategy.max_power_kw]
        result == optimize_schedule(h.job_specs, h.carbon_series, h.price_series, passed)
        called == [h EXCEPT !.log = Append(@, "engine"), !.weights = passed]
    IN  IF result.raised
        THEN [handler |-> handler_raised(called), cache |-> cache]
        ELSE [handler |->
                handler_emitted(called,
                    [status |-> "success",
                     window |-> [from |-> isoformat(h.window_start),
                                 to |-> isoformat(h.window_end),
                                 region |-> "GB"],
                     scheduled_jobs |-> [i \in DOMAIN result.scheduled_jobs |->
                                            scheduled_job_to_dict(result.scheduled_jobs[i])],
                     flex_offers |-> [i \in DOMAIN result.flex_offers |->
                                            flex_offer_to_dict(result.flex_offers[i])],
                     strategy |-> strategy]),
              cache |-> cache]

\* a planning cycle suspended between the two assignments to the cache
finish_planning_torn(h, strategy, cache) ==
    LET passed == [carbon_penalty_weight |-> strategy.carbon_penalty_weight,
                   sla_penalty_weight |-> strategy.sla_penalty_weight,
                   max_power_kw |-> strategy.max_power_kw]
        result == optimize_schedule(h.job_specs, h.carbon_series, h.price_series, passed)
        called == [h EXCEPT !.log = Append(@, "engine"), !.weights = passed]
    IN  IF result.raised
        THEN [handler |-> handler_raised(called), cache |-> cache]
        ELSE [handler |->
                handler_emitted(called,
                    [status |-> "success",
                     window |-> [from |-> isoformat(h.window_start),
                                 to |-> isoformat(h.window_end),
                                 region |-> "GB"],
                     scheduled_jobs |-> [i \in DOMAIN result.scheduled_jobs |->
                                            scheduled_job_to_dict(result.scheduled_jobs[i])],
                     flex_offers |-> [i \in DOMAIN result.flex_offers |->
                                            flex_offer_to_dict(result.flex_offers[i])],
                     strategy |-> strategy]),
              cache |-> [last_schedule |-> cache.last_schedule,
                         last_flex_offers |-> result.flex_offers]]

\* lines 100-118 of _handle_run_planning and line 68 of execute: the engine
\* call, the cache update and the response.  An exception of the engine
\* leaves the cache as it was
finish_planning(h, strategy, cache) ==
    LET passed == [carbon_penalty_weight |-> strategy.carbon_penalty_weight,
                   sla_penalty_weight |-> strategy.sla_penalty_weight,
                   max_power_kw |-> strategy.max_power_kw]
        result == optimize_schedule(h.job_specs, h.carbon_series, h.price_series, passed)
        called == [h EXCEPT !.log = Append(@, "engine"), !.weights = passed]
    IN  IF result.raised
        THEN [handler |-> handler_raised(called), cache |-> cache]
        ELSE [handler |->
                handler_emitted(called,
                    [status |-> "success",
                     window |-> [from |-> isoformat(h.window_start),
                                 to |-> isoformat(h.window_end),
                                 region |-> "GB"],
                     scheduled_jobs |-> [i \in DOMAIN result.scheduled_jobs |->
                                            scheduled_job_to_dict(result.scheduled_jobs[i])],
                     flex_offers |-> [i \in DOMAIN result.flex_offers |->
                                            flex_offer_to_dict(result.flex_offers[i])],
                     strategy |-> strategy]),
              cache |-> [last_schedule |-> result.scheduled_jobs,
                         last_flex_offers |-> result.flex_offers]]

\* execute up to its first suspension point (the grid RPC) or to its end:
\* the handler it leaves for the request
coord_receive(request, now, offers) ==
    LET payload == request.payload
        command == command_of(payload)
        h0      == [HandlerIdle EXCEPT !.request = request]
        from    == IF "from" \in payload.keys THEN parse_datetime(payload.from)
                   ELSE [raised |-> FALSE, value |-> now]
        to      == IF "to" \in payload.keys THEN parse_datetime(payload.to)
                   ELSE [raised |-> FALSE, value |-> from.value + DEFAULT_HORIZON]
    IN  IF request.kind = "text"            \* json.loads raises JSONDecodeError
        THEN handler_emitted(h0, [status |-> "error", message |-> "Expecting value"])
        ELSE IF request.kind # "object"     \* payload.get raises AttributeError
        THEN handler_raised(h0)
        ELSE IF command = "run_caco_planning"
        THEN IF from.raised \/ to.raised    \* parse_datetime raises ValueError
             THEN handler_raised(h0)
             ELSE [h0 EXCEPT !.pc = "awaiting_grid",
                             !.window_start = from.value,
                             !.window_end = to.value,
                             !.log = <<"send_grid">>]
        ELSE IF command = "export_beckn_catalog"
        THEN handler_emitted(h0,
                 [status |-> "ok",
                  flex_offers |-> [i \in DOMAIN offers |-> flex_offer_to_dict(offers[i])]])
        ELSE handler_emitted(h0,
                 [status |-> "error", message |-> "Unknown command '" \o command \o "'"])

\* a variant that runs the engine on the grid series as soon as they are in,
\* before the jobs are fetched
coord_grid_reply_engine_early(h, reply) ==
    LET fetched  == fetch_grid_series(reply)
        received == [h EXCEPT !.log = Append(@, "recv_grid")]
    IN  IF fetched.raised THEN handler_raised(received)
        ELSE [received EXCEPT !.pc = "awaiting_compute",
                              !.carbon_series = fetched.carbon_series,
                              !.price_series = fetched.price_series,
                              !.log = Append(Append(@, "engine"), "send_compute")]

\* _handle_run_planning from the reply of the grid RPC to the next suspension
\* point (the compute RPC)
coord_grid_reply(h, reply) ==
    LET fetched  == fetch_grid_series(reply)
        received == [h EXCEPT !.log = Append(@, "recv_grid")]
    IN  IF fetched.raised THEN handler_raised(received)
        ELSE [received EXCEPT !.pc = "awaiting_compute",
                              !.carbon_series = fetched.carbon_series,
                              !.price_series = fetched.price_series,
                              !.log = Append(@, "send_compute")]

\* a variant that empties the cache when the jobs cannot be fetched
coord_compute_reply_clears_cache(h, reply, llm, cache) ==
    LET fetched  == fetch_jobs(reply)
        received == [h EXCEPT !.jobs_payload = reply, !.log = Append(@, "recv_compute")]
        base     == base_strategy(optimization_cfg_of(h.request.payload))
        ready    == [received EXCEPT !.job_specs = fetched.jobs, !.base = base.strategy]
    IN  IF fetched.raised \/ base.raised
        THEN [handler |-> handler_raised(received),
              cache |-> [last_schedule |-> <<>>, last_flex_offers |-> <<>>]]
        ELSE IF llm
        THEN [handler |-> [ready EXCEPT !.pc = "awaiting_oracle",
                                        !.log = Append(@, "call_oracle")],
              cache |-> cache]
        ELSE finish_planning(ready, base.strategy, cache)

\* _handle_run_planning from the reply of the compute RPC to the oracle call
\* or, with no oracle, to the end of execute
coord_compute_reply(h, reply, llm, cache) ==
    LET fetched  == fetch_jobs(reply)
        received == [h EXCEPT !.jobs_payload = reply, !.log = Append(@, "recv_compute")]
        base     == base_strategy(optimization_cfg_of(h.request.payload))
        ready    == [received EXCEPT !.job_specs = fetched.jobs, !.base = base.strategy]
    IN  IF fetched.raised \/ base.raised
        THEN [handler |-> handler_raised(received), cache |-> cache]
        ELSE IF llm
        THEN [handler |-> [ready EXCEPT !.pc = "awaiting_oracle",
                                        !.log = Append(@, "call_oracle")],
              cache |-> cache]
        ELSE finish_planning(ready, base.strategy, cache)

\* _handle_run_planning from the return of the oracle call to the end of execute
coord_oracle_reply(h, oracle, cache) ==
    LET decided  == strategy_from_oracle(h.base, oracle)
        received == [h EXCEPT !.decision = oracle, !.log = Append(@, "recv_oracle")]
    IN  IF decided.raised
        THEN [handler |-> handler_raised(received), cache |-> cache]
        ELSE finish_planning(received, decided.strategy, cache)

---------------------------------------------------------------------------
(* Requests, replies and oracle answers drawn for the Coordination agent *)

Optimization(keys, non_numeric, carbon, sla, power) ==
    [keys |-> keys, non_numeric |-> non_numeric, carbon_penalty_weight |-> carbon,
     sla_penalty_weight |-> sla, max_power_kw |-> power]

CoordPayload(keys, command, from, to, optimization) ==
    [keys |-> keys, command |-> command, from |-> from, to |-> to, cluster_id |-> "",
     optimization |-> optimization]

\* windows given, absent and malformed; weights absent, partly given, wholly
\* given (12.0, 0.0 and 500 kW, outside the ranges of the oracle) and not numeric
PlanningPayloads ==
    {CoordPayload({"command", "from", "to"}, "run_caco_planning",
                  isoformat(0), isoformat(4), NoOptimization),
     CoordPayload({"command", "from", "to", "optimization"}, "run_caco_planning",
                  isoformat(0), isoformat(4),
                  Optimization({"carbon_penalty_weight"}, {}, 50, 0, 0)),
     CoordPayload({"command", "from", "to", "optimization"}, "run_caco_planning",
                  isoformat(0), isoformat(4),
                  Optimization({"carbon_penalty_weight", "sla_penalty_weight", "max_power_kw"},
                               {}, 120, 0, 500)),
     CoordPayload({"command", "from", "to", "optimization"}, "run_caco_planning",
                  isoformat(0), isoformat(4),
                  Optimization({"max_power_kw"}, {"max_power_kw"}, 0, 0, 0)),
     CoordPayload({"command"}, "run_caco_planning", "", "", NoOptimization),
     CoordPayload({"command", "from", "to"}, "run_caco_planning",
                  "tomorrow", isoformat(4), NoOptimization),
     CoordPayload({"command", "from", "to"}, "run_caco_planning",
                  isoformat(0), "tomorrow", NoOptimization)}

CoordPayloads ==
    PlanningPayloads
    \cup {CoordPayload({"command"}, "export_beckn_catalog", "", "", NoOptimization),
          CoordPayload({"command"}, "ingest_jobs", "", "", NoOptimization),
          CoordPayload({}, "", "", "", NoOptimization)}

CoordRequests ==
    {[context_id |-> c, kind |-> "object", payload |-> p] :
        c \in ContextIds, p \in CoordPayloads}
    \cup {[context_id |-> c, kind |-> k, payload |-> NoCoordPayload] :
        c \in ContextIds, k \in {"text", "array"}}

\* datetime.now(timezone.utc) when the payload has no from
NowChoices == {0, 1}

CarbonEntry(t, value) ==
    [timestamp |-> isoformat(t), forecast_g_per_kwh |-> value, index |-> "low"]

PriceEntry(t, value) ==
    [timestamp |-> isoformat(t), system_buy_price_gbp_per_mwh |-> value,
     system_sell_price_gbp_per_mwh |-> value - 30]

GridReply(kind, keys, status, carbon, price) ==
    [kind |-> kind, keys |-> keys, status |-> status, carbon_series |-> carbon,
     price_series |-> price]

\* what the Grid agent answers for the window 00:00 to 01:00 when both of its
\* upstream providers fail: the synthetic series, their values cut to whole
\* g/kWh and GBP/MWh, the units of the engine
FallbackGridReply ==
    LET answered == grid_forecast(0, 4, [carbon |-> [kind |-> "bad_status", data |-> <<>>],
                                         price |-> [kind |-> "bad_status", data |-> <<>>]])
    IN  GridReply("object", {"carbon_series", "price_series"}, "",
            [i \in DOMAIN answered.carbon_series |->
                [answered.carbon_series[i] EXCEPT !.forecast_g_per_kwh = @ \div 4]],
            [i \in DOMAIN answered.price_series |->
                [answered.price_series[i] EXCEPT
                    !.system_buy_price_gbp_per_mwh = @ \div 3,
                    !.system_sell_price_gbp_per_mwh = @ \div 3]])

\* a call that fails, a text that is no JSON, an error object, and forecasts:
\* half-hourly, with a quarter-hour step, without carbon points, without any
\* point, with an entry whose timestamp does not parse
GridReplies ==
    {GridReply("failed", {}, "", <<>>, <<>>),
     GridReply("not_json", {}, "", <<>>, <<>>),
     GridReply("object", {"status", "message"}, "error", <<>>, <<>>),
     GridReply("object", {"carbon_series", "price_series"}, "",
               <<CarbonEntry(0, 300), CarbonEntry(2, 50)>>,
               <<PriceEntry(0, 100), PriceEntry(2, 200)>>),
     GridReply("object", {"carbon_series", "price_series"}, "",
               <<CarbonEntry(0, 50)>>, <<PriceEntry(1, 100)>>),
     GridReply("object", {"carbon_series", "price_series"}, "",
               <<>>, <<PriceEntry(0, 100)>>),
     GridReply("object", {"carbon_series", "price_series"}, "", <<>>, <<>>),
     GridReply("object", {"carbon_series", "price_series"}, "",
               <<[CarbonEntry(0, 50) EXCEPT !.timestamp = "soon"]>>,
               <<PriceEntry(0, 100)>>),
     FallbackGridReply}

ComputeReply(kind, keys, status, jobs_) ==
    [kind |-> kind, keys |-> keys, status |-> status, jobs |-> jobs_]

\* a call that fails, an answer with status "error", profiles without jobs,
\* with two jobs and with a job that lacks job_id
ComputeReplies ==
    {ComputeReply("failed", {}, "", <<>>),
     ComputeReply("object", {"status", "message"}, "error", <<>>),
     ComputeReply("object", {"status", "jobs"}, "ok", <<>>),
     ComputeReply("object", {"status", "jobs"}, "ok",
                  <<flex_view(JobPool[1], 0, 4), flex_view(JobPool[2], 0, 4)>>),
     ComputeReply("object", {"status", "jobs"}, "ok",
                  <<[flex_view(JobPool[1], 0, 4) EXCEPT !.job.keys = @ \ {"job_id"}]>>)}

Oracle(kind, keys, non_numeric, carbon, sla, power) ==
    [kind |-> kind, keys |-> keys, non_numeric |-> non_numeric,
     carbon_penalty_weight |-> carbon, sla_penalty_weight |-> sla, max_power_kw |-> power,
     strategy_reasoning |-> "oracle"]

\* a call that raises, a reply that is no JSON, JSON that is no object, and
\* objects: weights in range, out of range, partly given, not numeric
OracleAnswers ==
    {Oracle("raises", {}, {}, 0, 0, 0),
     Oracle("not_json", {}, {}, 0, 0, 0),
     Oracle("not_object", {}, {}, 0, 0, 0),
     Oracle("object", {"carbon_penalty_weight", "sla_penalty_weight", "max_power_kw",
                       "strategy_reasoning"}, {}, 20, 30, 2000),
     Oracle("object", {"carbon_penalty_weight", "sla_penalty_weight", "max_power_kw"},
            {}, 150, 0 - 5, 500),
     Oracle("object", {"sla_penalty_weight"}, {}, 0, 0, 0),
     Oracle("object", {"carbon_penalty_weight"}, {"carbon_penalty_weight"}, 0, 0, 0)}

---------------------------------------------------------------------------
(* The Coordination agent as a state machine: one action per stretch of    *)
(* execute between two suspension points, for the request of context c     *)

Cache == [last_schedule |-> last_schedule, last_flex_offers |-> last_flex_offers]

\* the success response of a handler that has ended, or the one before it
success_of(h, previous) ==
    IF h.pc = "done" /\ h.emitted # <<>> /\ h.emitted[1].body.status = "success"
    THEN [completed |-> TRUE,
          scheduled_jobs |-> h.emitted[1].body.scheduled_jobs,
          flex_offers |-> h.emitted[1].body.flex_offers]
    ELSE previous

\* the contexts whose handlers wait for an RPC or for the oracle
Suspended ==
    {d \in ContextIds : coord[d].pc \in {"awaiting_grid", "awaiting_compute", "awaiting_oracle"}}

\* coordination_agent/agent.py 50-90: the request arrives at the handler of
\* context c
coord_receives(c, request, now) ==
    /\ coord[c].pc = "idle"
    /\ request.context_id = c
    /\ coord' = [coord EXCEPT ![c] =
                    [coord_receive(request, now, last_flex_offers)
                        EXCEPT !.started_during = Suspended]]
    /\ UNCHANGED <<last_schedule, last_flex_offers, strategy_llm, last_success, logger_vars>>
    /\ UNCHANGED <<engine_vars, compute_vars, grid_vars>>

\* coordination_agent/agent.py 135-140 and 91: the grid RPC returns reply
coord_grid_replies(c, reply) ==
    /\ coord[c].pc = "awaiting_grid"
    /\ coord' = [coord EXCEPT ![c] = coord_grid_reply(coord[c], reply)]
    /\ UNCHANGED <<last_schedule, last_flex_offers, strategy_llm, last_success, logger_vars>>
    /\ UNCHANGED <<engine_vars, compute_vars, grid_vars>>

\* the handler of context c has run to its next suspension point or its end
coord_continues(c, done) ==
    /\ coord' = [coord EXCEPT ![c] = done.handler]
    /\ last_schedule' = done.cache.last_schedule
    /\ last_flex_offers' = done.cache.last_flex_offers
    /\ last_success' = success_of(done.handler, last_success)
    /\ UNCHANGED <<strategy_llm, logger_vars>>
    /\ UNCHANGED <<engine_vars, compute_vars, grid_vars>>

\* coordination_agent/agent.py 157-162 and 93-118: the compute RPC returns reply
coord_compute_replies(c, reply) ==
    /\ coord[c].pc = "awaiting_compute"
    /\ coord_continues(c, coord_compute_reply(coord[c], reply, strategy_llm, Cache))

\* coordination_agent/agent.py 221-249 and 100-118: the oracle call returns
coord_oracle_replies(c, oracle) ==
    /\ coord[c].pc = "awaiting_oracle"
    /\ coord_continues(c, coord_oracle_reply(coord[c], oracle, Cache))

CoordReceive(c) ==
    \E request \in CoordRequests, now \in NowChoices : coord_receives(c, request, now)

CoordGridReply(c) == \E reply \in GridReplies : coord_grid_replies(c, reply)

CoordComputeReply(c) == \E reply \in ComputeReplies : coord_compute_replies(c, reply)

CoordOracleReply(c) == \E oracle \in OracleAnswers : coord_oracle_replies(c, oracle)

\* the request handler has read the event queue of the request and drops it
CoordClose(c) ==
    /\ coord[c].pc = "done"
    /\ coord' = [d \in ContextIds |->
                    IF d = c THEN HandlerIdle
                    ELSE [coord[d] EXCEPT !.started_during = @ \ {c}]]
    /\ UNCHANGED <<last_schedule, last_flex_offers, strategy_llm, last_success, logger_vars>>
    /\ UNCHANGED <<engine_vars, compute_vars, grid_vars>>

---------------------------------------------------------------------------
(* The three agents under one client that, like launch_caco_simulation,    *)
(* sends one request at a time and reads the answer before the next        *)

ComputeIdle == compute_request.kind = "none"

AgentsIdle ==
    /\ ComputeIdle
    /\ GridIdle
    /\ \A c \in ContextIds : coord[c].pc = "idle"

\* one request of each kind the Compute agent tells apart
ClientComputeRequests ==
    {r \in ComputeRequests :
        \/ r.kind # "object"
        \/ r.payload \in OtherPayloads
        \/ r.payload.command = "ingest_jobs"
             /\ r.payload.jobs \in {<<job_to_dict(Job("job-01", 0, 600, 2, 2, 0, 1, 0))>>,
                                    <<CHOOSE j \in MalformedWireJobs : "job_id" \notin j.keys>>}
        \/ r.payload.command = "get_flexibility_profile"
             /\ "cluster_id" \notin r.payload.keys
             /\ r.payload.to = isoformat(2)
             /\ r.payload.from \in {isoformat(0), "tomorrow", ""}}

\* one request of each kind the Grid agent tells apart
ClientGridRequests ==
    {r \in GridRequests :
        \/ r.kind # "object"
        \/ r.payload.command # "get_grid_forecast"
        \/ r.payload.to = isoformat(4)
             /\ r.payload.from \in {isoformat(0), "tomorrow", ""}}

ClientGridUpstreams ==
    {u \in [carbon : CarbonUpstreams, price : PriceUpstreams] :
        /\ u.carbon.kind \in {"ok", "network_error"}
        /\ u.price.kind \in {"ok", "bad_status"}
        /\ u.carbon.data = <<>> /\ u.price.data = <<>>}

InitAgents ==
    /\ jobs = <<>>
    /\ carbon_series = <<>>
    /\ price_series = <<>>
    /\ weights = [carbon_penalty_weight |-> 5, sla_penalty_weight |-> 10, max_power_kw |-> 1000]
    /\ pc = "idle"
    /\ EngineLocalsUnset
    /\ ComputeConstructed
    /\ GridConstructed
    /\ CoordinationConstructed
    /\ strategy_llm \in BOOLEAN

ClientCallsCompute ==
    /\ AgentsIdle
    /\ \E request \in ClientComputeRequests : compute_handles(request)

\* the request handler has read the event queue of the request and drops it
ComputeClose ==
    /\ ~ ComputeIdle
    /\ compute_request' = [context_id |-> "", kind |-> "none", payload |-> NoPayload]
    /\ ledger_before' = <<>>
    /\ compute_emitted' = <<>>
    /\ compute_raised' = FALSE
    /\ UNCHANGED <<ledger, engine_vars, grid_vars, coord_vars>>

ClientCallsGrid ==
    /\ AgentsIdle
    /\ \E request \in ClientGridRequests :
        \E upstream \in IF grid_reaches_upstream(request) THEN ClientGridUpstreams
                        ELSE {[carbon |-> NoUpstream, price |-> NoUpstream]} :
            grid_handles(request, upstream)

ClientCallsCoordination == AgentsIdle /\ \E c \in ContextIds : CoordReceive(c)

GridReplyArrives == \E c \in ContextIds : CoordGridReply(c)

ComputeReplyArrives == \E c \in ContextIds : CoordComputeReply(c)

OracleReturns == \E c \in ContextIds : CoordOracleReply(c)

CoordinationClose == \E c \in ContextIds : CoordClose(c)

NextAgents ==
    \/ ClientCallsCompute
    \/ ComputeClose
    \/ ClientCallsGrid
    \/ GridClose
    \/ ClientCallsCoordination
    \/ GridReplyArrives
    \/ ComputeReplyArrives
    \/ OracleReturns
    \/ CoordinationClose

SpecAgents == InitAgents /\ [][NextAgents]_vars

---------------------------------------------------------------------------
(* The Coordination agent under clients that do not wait for each other:   *)
(* the handlers of different requests interleave at their suspension       *)
(* points, as coroutines of the one event loop of the agent                *)

\* planning requests with differing weights, and the export request
InterleavedRequests ==
    {r \in CoordRequests :
        /\ r.kind = "object"
        /\ "command" \in r.payload.keys
        /\ \/ r.payload.command = "export_beckn_catalog"
           \/ /\ r.payload.command = "run_caco_planning"
              /\ r.payload.from = isoformat(0) /\ r.payload.to = isoformat(4)
              /\ \/ "optimization" \notin r.payload.keys
                 \/ r.payload.optimization.keys =
                       {"carbon_penalty_weight", "sla_penalty_weight", "max_power_kw"}}

\* a grid call that fails and a forecast
InterleavedGridReplies ==
    {r \in GridReplies : r.kind = "failed" \/ Len(r.carbon_series) = 2}

\* an error of the Compute agent, a profile without jobs and one with jobs
InterleavedComputeReplies ==
    {r \in ComputeReplies :
        r.kind = "object" /\ \A i \in DOMAIN r.jobs : "job_id" \in r.jobs[i].job.keys}

\* an oracle that raises and one that answers in range
InterleavedOracleAnswers ==
    {o \in OracleAnswers : o.kind = "raises" \/ "strategy_reasoning" \in o.keys}

InitCoordination ==
    /\ jobs = <<>>
    /\ carbon_series = <<>>
    /\ price_series = <<>>
    /\ weights = [carbon_penalty_weight |-> 5, sla_penalty_weight |-> 10, max_power_kw |-> 1000]
    /\ pc = "idle"
    /\ EngineLocalsUnset
    /\ ComputeConstructed
    /\ GridConstructed
    /\ CoordinationConstructed
    /\ strategy_llm \in BOOLEAN

RequestArrives ==
    \E c \in ContextIds, request \in InterleavedRequests : coord_receives(c, request, 0)

GridRepliesToHandler ==
    \E c \in ContextIds, reply \in InterleavedGridReplies : coord_grid_replies(c, reply)

ComputeRepliesToHandler ==
    \E c \in ContextIds, reply \in InterleavedComputeReplies : coord_compute_replies(c, reply)

OracleRepliesToHandler ==
    \E c \in ContextIds, oracle \in InterleavedOracleAnswers : coord_oracle_replies(c, oracle)

HandlerCloses == \E c \in ContextIds : CoordClose(c)

NextCoordination ==
    \/ RequestArrives
    \/ GridRepliesToHandler
    \/ ComputeRepliesToHandler
    \/ OracleRepliesToHandler
    \/ HandlerCloses

SpecCoordination == InitCoordination /\ [][NextCoordination]_vars

---------------------------------------------------------------------------
(* CsvEventLogger: src/src/logging/csv_logger.py.  Threads call append on   *)
(* loggers already constructed; the file is the sequence of the writes that *)
(* reached it.  A row shorter than the buffer of the file object reaches    *)
(* the file in one write when the file is closed; a longer row reaches it   *)
(* in two, the first during writerow                                        *)

MaxAppends == 1

InitLogger ==
    /\ jobs = <<>>
    /\ carbon_series = <<>>
    /\ price_series = <<>>
    /\ weights = [carbon_penalty_weight |-> 5, sla_penalty_weight |-> 10, max_power_kw |-> 1000]
    /\ pc = "idle"
    /\ EngineLocalsUnset
    /\ AgentsConstructed

logger_unchanged == UNCHANGED <<engine_vars, compute_vars, grid_vars, coord, last_schedule,
                                last_flex_offers, strategy_llm, last_success>>

\* csv_logger.py 32-36: append is called and the row is flattened
AppendCalled(t) ==
    /\ logger_pc[t] = "idle"
    /\ logger_appended[t] < MaxAppends
    /\ \E size \in {"short", "long"} :
          logger_row' = [logger_row EXCEPT ![t] = [size |-> size]]
    /\ logger_pc' = [logger_pc EXCEPT ![t] = "waiting"]
    /\ UNCHANGED <<logger_lock, logger_dir, logger_file, logger_appended>>
    /\ logger_unchanged

\* csv_logger.py 38: with self._lock, entered when the lock is free
LockAcquired(t) ==
    /\ logger_pc[t] = "waiting"
    /\ logger_lock[lock_of(instance_of(t))] = "free"
    /\ logger_lock' = [logger_lock EXCEPT ![lock_of(instance_of(t))] = t]
    /\ logger_pc' = [logger_pc EXCEPT ![t] = "locked"]
    /\ UNCHANGED <<logger_dir, logger_file, logger_row, logger_appended>>
    /\ logger_unchanged

\* csv_logger.py 39-41: os.makedirs(directory, exist_ok=True)
MakeDirs(t) ==
    /\ logger_pc[t] = "locked"
    /\ logger_dir' = TRUE
    /\ logger_pc' = [logger_pc EXCEPT ![t] = "dir_made"]
    /\ UNCHANGED <<logger_lock, logger_file, logger_row, logger_appended>>
    /\ logger_unchanged

\* csv_logger.py 42: open(self.path, "a"), which creates a missing file
FileOpened(t) ==
    /\ logger_pc[t] = "dir_made"
    /\ logger_pc' = [logger_pc EXCEPT ![t] = "open"]
    /\ UNCHANGED <<logger_lock, logger_dir, logger_file, logger_row, logger_appended>>
    /\ logger_unchanged

\* csv_logger.py 43: writerow; the head of a long row reaches the file
RowWritten(t) ==
    /\ logger_pc[t] = "open"
    /\ logger_file' = IF logger_row[t].size = "long"
                      THEN Append(logger_file,
                                  [thread |-> t, row |-> logger_appended[t] + 1,
                                   part |-> "head"])
                      ELSE logger_file
    /\ logger_pc' = [logger_pc EXCEPT ![t] = "written"]
    /\ UNCHANGED <<logger_lock, logger_dir, logger_row, logger_appended>>
    /\ logger_unchanged

\* csv_logger.py 42, leaving the inner with: the file object is flushed and
\* closed
FileClosed(t) ==
    /\ logger_pc[t] = "written"
    /\ logger_file' = Append(logger_file,
                             [thread |-> t, row |-> logger_appended[t] + 1,
                              part |-> IF logger_row[t].size = "long" THEN "tail"
                                       ELSE "whole"])
    /\ logger_pc' = [logger_pc EXCEPT ![t] = "closed"]
    /\ UNCHANGED <<logger_lock, logger_dir, logger_row, logger_appended>>
    /\ logger_unchanged

\* csv_logger.py 38, leaving the outer with: the lock is released and append
\* returns
LockReleased(t) ==
    /\ logger_pc[t] = "closed"
    /\ logger_lock' = [logger_lock EXCEPT ![lock_of(instance_of(t))] = "free"]
    /\ logger_pc' = [logger_pc EXCEPT ![t] = "idle"]
    /\ logger_row' = [logger_row EXCEPT ![t] = NoRow]
    /\ logger_appended' = [logger_appended EXCEPT ![t] = @ + 1]
    /\ UNCHANGED <<logger_dir, logger_file>>
    /\ logger_unchanged

\* the directory of the file is removed, with the file, while no thread is
\* between makedirs and the close of the file
DirectoryRemoved ==
    /\ logger_dir
    /\ \A t \in Threads : logger_pc[t] \in {"idle", "waiting", "locked", "closed"}
    /\ logger_dir' = FALSE
    /\ logger_file' = <<>>
    /\ UNCHANGED <<logger_pc, logger_lock, logger_row, logger_appended>>
    /\ logger_unchanged

AppendStarts == \E t \in Threads : AppendCalled(t)

AppendLocks == \E t \in Threads : LockAcquired(t)

AppendMakesDirs == \E t \in Threads : MakeDirs(t)

AppendOpens == \E t \in Threads : FileOpened(t)

AppendWrites == \E t \in Threads : RowWritten(t)

AppendCloses == \E t \in Threads : FileClosed(t)

AppendReturns == \E t \in Threads : LockReleased(t)

NextLogger ==
    \/ AppendStarts
    \/ AppendLocks
    \/ AppendMakesDirs
    \/ AppendOpens
    \/ AppendWrites
    \/ AppendCloses
    \/ AppendReturns
    \/ DirectoryRemoved

SpecLogger == InitLogger /\ [][NextLogger]_vars

---------------------------------------------------------------------------
(* CsvEventLogger from its construction on: neither the directory nor the  *)
(* file exists; every thread constructs a logger for the one path and then *)
(* appends.  An empty sequence stands for a missing file and for a file of *)
(* size 0, which _ensure_header does not tell apart                        *)

InitLoggerConstruction ==
    /\ jobs = <<>>
    /\ carbon_series = <<>>
    /\ price_series = <<>>
    /\ weights = [carbon_penalty_weight |-> 5, sla_penalty_weight |-> 10, max_power_kw |-> 1000]
    /\ pc = "idle"
    /\ EngineLocalsUnset
    /\ ComputeConstructed
    /\ GridConstructed
    /\ coord = [c \in ContextIds |-> HandlerIdle]
    /\ last_schedule = <<>>
    /\ last_flex_offers = <<>>
    /\ last_success = NoSuccess
    /\ strategy_llm = FALSE
    /\ logger_pc = [t \in Threads |-> "unconstructed"]
    /\ logger_lock = [l \in Locks |-> "free"]
    /\ logger_dir = FALSE
    /\ logger_file = <<>>
    /\ logger_row = [t \in Threads |-> NoRow]
    /\ logger_appended = [t \in Threads |-> 0]

\* csv_logger.py 24-25: is_new is computed; a file that has content ends
\* _ensure_header and with it __init__
HeaderChecked(t) ==
    /\ logger_pc[t] = "unconstructed"
    /\ logger_pc' = [logger_pc EXCEPT ![t] =
                        IF logger_file = <<>> THEN "header_needed" ELSE "idle"]
    /\ UNCHANGED <<logger_lock, logger_dir, logger_file, logger_row, logger_appended>>
    /\ logger_unchanged

\* csv_logger.py 26-29: makedirs and open(self.path, "w"), which empties
\* the file
HeaderOpened(t) ==
    /\ logger_pc[t] = "header_needed"
    /\ logger_dir' = TRUE
    /\ logger_file' = <<>>
    /\ logger_pc' = [logger_pc EXCEPT ![t] = "header_open"]
    /\ UNCHANGED <<logger_lock, logger_row, logger_appended>>
    /\ logger_unchanged

\* csv_logger.py 29-30, leaving the with: the header reaches the file at the
\* position of the file object, its start, over what others wrote there
\* since the file was opened
HeaderWritten(t) ==
    /\ logger_pc[t] = "header_open"
    /\ logger_file' = IF logger_file = <<>> THEN <<HeaderWrite>>
                      ELSE [logger_file EXCEPT ![1] = HeaderWrite]
    /\ logger_pc' = [logger_pc EXCEPT ![t] = "idle"]
    /\ UNCHANGED <<logger_lock, logger_dir, logger_row, logger_appended>>
    /\ logger_unchanged

HeaderChecks == \E t \in Threads : HeaderChecked(t)

HeaderOpens == \E t \in Threads : HeaderOpened(t)

HeaderWrites == \E t \in Threads : HeaderWritten(t)

NextLoggerConstruction ==
    \/ HeaderChecks
    \/ HeaderOpens
    \/ HeaderWrites
    \/ AppendStarts
    \/ AppendLocks
    \/ AppendMakesDirs
    \/ AppendOpens
    \/ AppendWrites
    \/ AppendCloses
    \/ AppendReturns

SpecLoggerConstruction == InitLoggerConstruction /\ [][NextLoggerConstruction]_vars

---------------------------------------------------------------------------
(* Properties of the scheduling engine *)

Range(seq) == {seq[i] : i \in DOMAIN seq}

\* the job of the input a scheduled job or an offer was made from
SourceJob(id) == CHOOSE job \in Range(jobs) : job.job_id = id

IsScheduled(job) == \E k \in DOMAIN scheduled_jobs : scheduled_jobs[k].job_id = job.job_id

\* total power_kw of the scheduled jobs whose [start_time, end_time) covers t
PowerCovering(t) ==
    LET covering == {k \in DOMAIN scheduled_jobs :
                        scheduled_jobs[k].start_time <= t /\ t < scheduled_jobs[k].end_time}
    IN  SumOver([k \in DOMAIN scheduled_jobs |-> scheduled_jobs[k].power_kw], covering)

\* C1: after optimize_schedule returns, at every timestamp t of the timeline
\* the power of the scheduled jobs with start_time <= t < end_time sums to at
\* most max_power_kw
C1_PowerCapAtEveryTimestamp ==
    pc = "returned" =>
        \A i \in DOMAIN timeline : PowerCovering(timeline[i]) <= weights.max_power_kw

\* C2: every scheduled job starts no earlier than its job's arrival_time and,
\* when max_deferral_hours > 0, ends no later than deadline + max_deferral_hours
C2_WindowRespect ==
    \A k \in DOMAIN scheduled_jobs :
        LET sj  == scheduled_jobs[k]
            job == SourceJob(sj.job_id)
        IN  /\ sj.start_time >= job.arrival_time
            /\ job.max_deferral_hours > 0 =>
                   sj.end_time <= job.deadline + job.max_deferral_hours

\* a flexible job placed after its arrival and ending exactly at deadline +
\* max_deferral_hours, while a later start was on the timeline
C2_Witness ==
    /\ pc = "returned"
    /\ \E k \in DOMAIN scheduled_jobs :
        LET sj  == scheduled_jobs[k]
            job == SourceJob(sj.job_id)
        IN  /\ job.max_deferral_hours > 0
            /\ sj.start_time > job.arrival_time
            /\ sj.end_time = job.deadline + job.max_deferral_hours
            /\ \E i \in DOMAIN timeline : timeline[i] > sj.start_time

\* C3: the lateness recorded for every scheduled job is at most its job's
\* max_deferral_hours, so a job with max_deferral_hours = 0 never ends late
C3_LatenessWithinDeferral ==
    \A k \in DOMAIN scheduled_jobs :
        LET sj == scheduled_jobs[k]
        IN  sj.metadata.lateness_hours <= SourceJob(sj.job_id).max_deferral_hours

\* C4: a job whose duration does not fit between arrival_time and
\* deadline + max_deferral_hours is never in the returned schedule
C4_UnfittableJobNeverScheduled ==
    pc = "returned" =>
        \A job \in Range(jobs) :
            job.duration_hours > job.deadline + job.max_deferral_hours - job.arrival_time
                => ~ IsScheduled(job)

\* C5: optimize_schedule never raises, whatever the series
C5_EngineNeverRaises == pc # "raised"

\* C7: the flex offers are exactly one per scheduled job whose source job has
\* max_deferral_hours > 0, none for any other job, and each offer_id is
\* "flex-" followed by the job_id
C7_FlexOfferDerivation ==
    pc = "returned" =>
        /\ \A job \in Range(jobs) :
              Cardinality({k \in DOMAIN flex_offers :
                              flex_offers[k].tags.job_id = job.job_id})
                = IF IsScheduled(job) /\ job.max_deferral_hours > 0 THEN 1 ELSE 0
        /\ \A k \in DOMAIN flex_offers :
              /\ \E job \in Range(jobs) : flex_offers[k].tags.job_id = job.job_id
              /\ flex_offers[k].offer_id = "flex-" \o flex_offers[k].tags.job_id

\* a returned schedule of a flexible and an inflexible job, with one offer
C7_Witness ==
    /\ pc = "returned"
    /\ Len(scheduled_jobs) = 2
    /\ Len(flex_offers) = 1
    /\ \E job \in Range(jobs) : ~ IsScheduled(job) \/ job.max_deferral_hours = 0

\* the value a series holds at timestamp ts (a later point replaces an earlier
\* one with the same timestamp)
CarbonValueAt(ts) ==
    LET at == {i \in DOMAIN carbon_series : carbon_series[i].timestamp = ts}
    IN  carbon_series[CHOOSE i \in at : \A j \in at : j <= i].forecast_g_per_kwh

PriceValueAt(ts) ==
    LET at == {i \in DOMAIN price_series : price_series[i].timestamp = ts}
    IN  price_series[CHOOSE i \in at : \A j \in at : j <= i].system_buy_price_gbp_per_mwh

\* the latest timestamp of S strictly before ts
LatestBefore(S, ts) ==
    CHOOSE u \in S : u < ts /\ \A v \in S : v < ts => v <= u

\* C8: at a timeline timestamp present in only one series, the lookup of the
\* other series equals that series' value at its latest timestamp strictly
\* before it, when there is one (the price lookup holds it in GBP/kWh: 1 GBP/MWh
\* is 10 units of 1e-4 GBP/kWh)
C8_ForwardFill ==
    pc = "timeline_built" =>
        \A i \in DOMAIN timeline :
            LET ts == timeline[i]
                ct == Timestamps(carbon_series)
                pt == Timestamps(price_series)
            IN  /\ (ts \in ct /\ ts \notin pt /\ \E u \in pt : u < ts)
                      => price_lookup[ts] = 10 * PriceValueAt(LatestBefore(pt, ts))
                /\ (ts \in pt /\ ts \notin ct /\ \E u \in ct : u < ts)
                      => carbon_lookup[ts] = CarbonValueAt(LatestBefore(ct, ts))

\* a timestamp only the carbon series has, filled with a price that is not
\* the price of the first point of the price series
C8_Witness ==
    /\ pc = "timeline_built"
    /\ \E i \in DOMAIN timeline :
        LET ts == timeline[i]
            pt == Timestamps(price_series)
        IN  /\ ts \in Timestamps(carbon_series)
            /\ ts \notin pt
            /\ \E u \in pt : u < ts
            /\ price_lookup[ts] # 10 * price_series[1].system_buy_price_gbp_per_mwh

\* C9: with carbon_penalty_weight 5.0, the offer of a flexible half-hour job
\* scheduled in a slot priced 100 GBP/MWh has price_gbp_per_mwh = 150.0,
\* min_activation_notice_minutes = 60 and offer_id "flex-<job_id>", whatever
\* the prices of the other slots
C9_OfferPriceOfSlot ==
    (pc = "returned" /\ weights.carbon_penalty_weight = 50) =>
        \A k \in DOMAIN flex_offers :
            LET offer == flex_offers[k]
            IN  (/\ offer.latest_end - offer.earliest_start = SLOT_DURATION
                 /\ price_lookup[offer.earliest_start] = 10 * 100)
                => /\ offer.price_gbp_per_mwh.num = 150 * offer.price_gbp_per_mwh.den
                   /\ offer.min_activation_notice_minutes = 60
                   /\ offer.offer_id = "flex-" \o offer.tags.job_id

---------------------------------------------------------------------------
(* Properties of the Compute agent *)

\* the jobs entry of an ingest request ([] when the key is absent)
RequestJobs ==
    IF "jobs" \in compute_request.payload.keys THEN compute_request.payload.jobs ELSE <<>>

IsIngestRequest ==
    /\ compute_request.kind = "object"
    /\ "command" \in compute_request.payload.keys
    /\ compute_request.payload.command = "ingest_jobs"

\* every job of the request is a complete job object with valid timestamps
RequestJobsWellFormed == \A i \in DOMAIN RequestJobs : RequestJobs[i] \in WellFormedWireJobs

RequestJobIds == {RequestJobs[i].job_id : i \in DOMAIN RequestJobs}

\* the last job of the request with the given id
LastWithId(id) ==
    RequestJobs[CHOOSE i \in DOMAIN RequestJobs :
                   /\ RequestJobs[i].job_id = id
                   /\ \A j \in DOMAIN RequestJobs : RequestJobs[j].job_id = id => j <= i]

\* C10: after ingest_jobs with well-formed jobs the ledger holds, for every
\* job_id of the request, the last job of the request with that id (whatever
\* the ledger held for it before), every other ledger entry is unchanged, and
\* the one message emitted is status "ok" with num_jobs_ingested = the number
\* of jobs in the request and total_jobs = the number of distinct job_ids now
\* in the ledger
C10_IngestLastWriteWins ==
    (IsIngestRequest /\ RequestJobsWellFormed) =>
        /\ ~ compute_raised
        /\ ledger_ids(ledger) = ledger_ids(ledger_before) \cup RequestJobIds
        /\ Cardinality(ledger_ids(ledger)) = Len(ledger)
        /\ \A id \in RequestJobIds : job_to_dict(ledger_get(ledger, id)) = LastWithId(id)
        /\ \A id \in ledger_ids(ledger_before) \ RequestJobIds :
               ledger_get(ledger, id) = ledger_get(ledger_before, id)
        /\ compute_emitted =
               << [context_id |-> compute_request.context_id,
                   body |-> [status |-> "ok",
                             num_jobs_ingested |-> Len(RequestJobs),
                             total_jobs |-> Cardinality(ledger_ids(ledger))]] >>

\* an ingest that names one job_id twice with different jobs, replaces the
\* job the ledger held for that id and leaves another entry alone
C10_Witness ==
    /\ IsIngestRequest
    /\ RequestJobsWellFormed
    /\ Len(RequestJobs) = 2
    /\ RequestJobs[1].job_id = RequestJobs[2].job_id
    /\ RequestJobs[1] # RequestJobs[2]
    /\ RequestJobs[1].job_id \in ledger_ids(ledger_before)
    /\ ledger_get(ledger_before, RequestJobs[1].job_id)
           # ledger_get(ledger, RequestJobs[1].job_id)
    /\ ledger_ids(ledger_before) \ RequestJobIds # {}
    /\ ~ compute_raised

IsProfileRequest ==
    /\ compute_request.kind = "object"
    /\ "command" \in compute_request.payload.keys
    /\ compute_request.payload.command = "get_flexibility_profile"

\* from and to are present and are timestamps
ProfileWindowValid ==
    /\ {"from", "to"} \subseteq compute_request.payload.keys
    /\ \E p \in ParsedTexts : p[1] = compute_request.payload.from
    /\ \E p \in ParsedTexts : p[1] = compute_request.payload.to

\* the instant a valid window text denotes
InstantOf(text) == (CHOOSE p \in ParsedTexts : p[1] = text)[2]

\* the ledger jobs a profile request asks for
ProfileSelection ==
    LET from == InstantOf(compute_request.payload.from)
        to   == InstantOf(compute_request.payload.to)
    IN  {job \in Range(ledger_before) :
            /\ job.deadline >= from
            /\ job.arrival_time <= to
            /\ ("cluster_id" \in compute_request.payload.keys
                    => job.cluster_id = compute_request.payload.cluster_id)}

\* C11: get_flexibility_profile with a valid window answers status "ok" with
\* exactly the ledger jobs that have deadline >= from and arrival_time <= to
\* (of the given cluster when cluster_id is supplied), each once, each with
\* earliest_start = max(arrival_time, from), latest_end = min(deadline, to) and
\* slack_hours = max(0, (latest_end - earliest_start) - duration_hours) >= 0
C11_FlexibilityProfile ==
    (IsProfileRequest /\ ProfileWindowValid) =>
        /\ ~ compute_raised
        /\ Len(compute_emitted) = 1
        /\ compute_emitted[1].body.status = "ok"
        /\ LET view == compute_emitted[1].body.jobs
               from == InstantOf(compute_request.payload.from)
               to   == InstantOf(compute_request.payload.to)
           IN  /\ {view[i].job : i \in DOMAIN view} = {job_to_dict(job) : job \in ProfileSelection}
               /\ Len(view) = Cardinality(ProfileSelection)
               /\ \A i \in DOMAIN view :
                    \E job \in ProfileSelection :
                        LET earliest == IF job.arrival_time >= from THEN job.arrival_time ELSE from
                            latest   == IF job.deadline <= to THEN job.deadline ELSE to
                            slack    == (latest - earliest) - job.duration_hours
                        IN  /\ view[i].job = job_to_dict(job)
                            /\ view[i].earliest_start = isoformat(earliest)
                            /\ view[i].latest_end = isoformat(latest)
                            /\ view[i].slack_hours = (IF slack > 0 THEN slack ELSE 0)
                            /\ view[i].slack_hours >= 0

\* a profile that leaves out a job of the ledger and returns another whose
\* part of the window is shorter than its duration, with slack 0
C11_Witness ==
    /\ IsProfileRequest
    /\ ProfileWindowValid
    /\ ~ compute_raised
    /\ Len(compute_emitted) = 1
    /\ LET view == compute_emitted[1].body.jobs
       IN  \E i \in DOMAIN view :
                /\ view[i].slack_hours = 0
                /\ InstantOf(view[i].latest_end) - InstantOf(view[i].earliest_start)
                       < view[i].job.duration_hours
    /\ Cardinality(ProfileSelection) < Len(ledger_before)

---------------------------------------------------------------------------
(* Properties of the Grid agent *)

\* the request is get_grid_forecast with a window whose ends are timestamps,
\* the start not after the end
GridWindowValid ==
    /\ grid_reaches_upstream(grid_request)
    /\ InstantOf(grid_request.payload.from) <= InstantOf(grid_request.payload.to)

\* the upstream call failed or brought no entries
UpstreamFailedOrEmpty(upstream) == upstream.kind # "ok" \/ upstream.data = <<>>

\* the agent answered with one message that holds the two series
GridAnsweredForecast ==
    /\ ~ grid_raised
    /\ Len(grid_emitted) = 1
    /\ grid_emitted[1].context_id = grid_request.context_id
    /\ "carbon_series" \in DOMAIN grid_emitted[1].body
    /\ "price_series" \in DOMAIN grid_emitted[1].body

\* C12: for every pair of upstream outcomes and a valid window the Grid agent
\* answers {carbon_series, price_series} without an error, and a series whose
\* upstream failed or was empty is the synthetic fallback, never empty
C12_UpstreamFailureFallsBack ==
    GridWindowValid =>
        /\ GridAnsweredForecast
        /\ LET body == grid_emitted[1].body
               from == InstantOf(grid_request.payload.from)
               to   == InstantOf(grid_request.payload.to)
               synthetic_carbon == carbon_fallback_series(from, FALLBACK_PERIODS)
               synthetic_price  == price_fallback_series(from, to)
           IN  /\ UpstreamFailedOrEmpty(grid_upstream.carbon) =>
                    /\ body.carbon_series # <<>>
                    /\ \A i \in DOMAIN body.carbon_series :
                         \E k \in DOMAIN synthetic_carbon :
                             body.carbon_series[i] = carbon_point_to_dict(synthetic_carbon[k])
               /\ UpstreamFailedOrEmpty(grid_upstream.price) =>
                    /\ body.price_series # <<>>
                    /\ \A i \in DOMAIN body.price_series :
                         \E k \in DOMAIN synthetic_price :
                             body.price_series[i] = price_point_to_dict(synthetic_price[k])

\* C13: when both upstreams fail, for every valid window the answer holds at
\* least 48 carbon points and a non-empty price series in which every instant
\* of [from, to] lies in the half hour that starts at one of its timestamps
C13_FallbackCoverage ==
    (/\ GridWindowValid
     /\ grid_upstream.carbon.kind \notin {"ok", "none"}
     /\ grid_upstream.price.kind \notin {"ok", "none"}) =>
        /\ GridAnsweredForecast
        /\ LET body == grid_emitted[1].body
               from == InstantOf(grid_request.payload.from)
               to   == InstantOf(grid_request.payload.to)
           IN  /\ Len(body.carbon_series) >= FALLBACK_PERIODS
               /\ body.price_series # <<>>
               /\ \A t \in from .. to :
                    \E i \in DOMAIN body.price_series :
                        LET ts == InstantOf(body.price_series[i].timestamp)
                        IN  ts <= t /\ t <= ts + HALF_HOUR

---------------------------------------------------------------------------
(* Properties of the three agents at the RPC boundary *)

\* the handler slots of the Coordination agent that hold a request
Handling == {c \in ContextIds : coord[c].pc # "idle"}

\* C14: for every request to any of the three agents, on every code path of
\* execute at most one response message is emitted, and that message carries
\* the context id of the request it answers
C14_AtMostOneResponse ==
    /\ Len(compute_emitted) <= 1
    /\ \A i \in DOMAIN compute_emitted :
          compute_emitted[i].context_id = compute_request.context_id
    /\ Len(grid_emitted) <= 1
    /\ \A i \in DOMAIN grid_emitted : grid_emitted[i].context_id = grid_request.context_id
    /\ \A c \in Handling :
          /\ coord[c].request.context_id = c
          /\ Len(coord[c].emitted) <= 1
          /\ \A i \in DOMAIN coord[c].emitted : coord[c].emitted[i].context_id = c

\* a planning cycle of context ctx-2 has ended with its one response
C14_Witness ==
    /\ coord["ctx-2"].pc = "done"
    /\ "engine" \in Range(coord["ctx-2"].log)
    /\ Len(coord["ctx-2"].emitted) = 1
    /\ coord["ctx-2"].emitted[1].context_id = "ctx-2"
    /\ coord["ctx-2"].emitted[1].body.status = "success"

\* C15: for every request payload to any agent (objects with missing or
\* ill-typed fields and JSON values that are no object included) the handler
\* ends by emitting one JSON response; no exception propagates out of execute
C15_NoExceptionLeavesExecute ==
    /\ ~ ComputeIdle => ~ compute_raised /\ Len(compute_emitted) = 1
    /\ ~ GridIdle => ~ grid_raised /\ Len(grid_emitted) = 1
    /\ \A c \in ContextIds :
          coord[c].pc = "done" => ~ coord[c].raised /\ Len(coord[c].emitted) = 1

\* a request whose text is no JSON, or a JSON object without a command
Malformed(request) ==
    \/ request.kind = "text"
    \/ request.kind = "object" /\ "command" \notin request.payload.keys

\* one message, an object {status: "error", message: ...}
ErrorResponse(emitted) ==
    /\ Len(emitted) = 1
    /\ emitted[1].body.status = "error"
    /\ "message" \in DOMAIN emitted[1].body

AgentStateUnchanged ==
    /\ ledger' = ledger
    /\ last_schedule' = last_schedule
    /\ last_flex_offers' = last_flex_offers

\* C16: a request whose text is not valid JSON, or is a JSON object without
\* a command field, produces from each of the three agents a response
\* {status: "error", message: ...} and changes no agent state (ledger and
\* last-plan cache unchanged)
C16_MalformedRequestAnswered ==
    [][/\ ComputeIdle /\ ~ ComputeIdle' /\ Malformed(compute_request')
            => ErrorResponse(compute_emitted') /\ ~ compute_raised' /\ AgentStateUnchanged
       /\ GridIdle /\ ~ GridIdle' /\ Malformed(grid_request')
            => ErrorResponse(grid_emitted') /\ ~ grid_raised' /\ AgentStateUnchanged
       /\ \A c \in ContextIds :
            coord[c].pc = "idle" /\ coord'[c].pc # "idle" /\ Malformed(coord'[c].request)
                => /\ coord'[c].pc = "done"
                   /\ ErrorResponse(coord'[c].emitted)
                   /\ ~ coord'[c].raised
                   /\ AgentStateUnchanged]_vars

\* with jobs in the ledger and a plan in the cache, the Coordination agent
\* has answered a request that is no JSON
C16_Witness ==
    /\ ledger # <<>>
    /\ last_schedule # <<>>
    /\ last_flex_offers # <<>>
    /\ \E c \in ContextIds :
          /\ coord[c].pc = "done"
          /\ coord[c].request.kind = "text"
          /\ ErrorResponse(coord[c].emitted)

\* the request names a command and the agent implements none of that name
NamesUnknownCommand(request, implemented) ==
    /\ request.kind = "object"
    /\ "command" \in request.payload.keys
    /\ request.payload.command \notin implemented

UnknownCommandResponse(request) ==
    <<text_message(request.context_id,
          [status |-> "error",
           message |-> "Unknown command '" \o request.payload.command \o "'"])>>

\* C17: a request with a command x that the receiving agent does not
\* implement gets, from each of the Compute, Grid and Coordination agents,
\* the response {status: "error", message: "Unknown command 'x'"}
C17_UnknownCommandAnswered ==
    /\ NamesUnknownCommand(compute_request, {"ingest_jobs", "get_flexibility_profile"})
          => compute_emitted = UnknownCommandResponse(compute_request)
    /\ NamesUnknownCommand(grid_request, {"get_grid_forecast"})
          => grid_emitted = UnknownCommandResponse(grid_request)
    /\ \A c \in Handling :
          NamesUnknownCommand(coord[c].request, {"run_caco_planning", "export_beckn_catalog"})
              => coord[c].emitted = UnknownCommandResponse(coord[c].request)

\* the request names the command and gives a from or a to that is no
\* ISO-8601 text
HasInvalidWindow(request, command) ==
    /\ request.kind = "object"
    /\ "command" \in request.payload.keys
    /\ request.payload.command = command
    /\ \/ "from" \in request.payload.keys /\ parse_datetime(request.payload.from).raised
       \/ "to" \in request.payload.keys /\ parse_datetime(request.payload.to).raised

InvalidWindowResponse(request) ==
    <<text_message(request.context_id, [status |-> "error", message |-> "Invalid window"])>>

\* C18: a run_caco_planning, get_flexibility_profile or get_grid_forecast
\* request whose from or to is not valid ISO-8601 is answered with
\* {status: "error"} and an "Invalid window" message, and leaves the agent's
\* state unchanged
C18_InvalidWindowAnswered ==
    [][/\ ComputeIdle /\ HasInvalidWindow(compute_request', "get_flexibility_profile")
            => compute_emitted' = InvalidWindowResponse(compute_request')
               /\ AgentStateUnchanged
       /\ GridIdle /\ HasInvalidWindow(grid_request', "get_grid_forecast")
            => grid_emitted' = InvalidWindowResponse(grid_request')
               /\ AgentStateUnchanged
       /\ \A c \in ContextIds :
            coord[c].pc = "idle" /\ HasInvalidWindow(coord'[c].request, "run_caco_planning")
                => /\ coord'[c].pc = "done"
                   /\ coord'[c].emitted = InvalidWindowResponse(coord'[c].request)
                   /\ AgentStateUnchanged]_vars

\* the handler of context c has had the answer of the Compute agent, and it
\* is an object whose status is not "ok"
ComputeAnsweredNotOk(c) ==
    /\ "recv_compute" \in Range(coord[c].log)
    /\ coord[c].jobs_payload.kind = "object"
    /\ "status" \in coord[c].jobs_payload.keys
    /\ coord[c].jobs_payload.status # "ok"

\* C19: when the Compute agent answers get_flexibility_profile with a status
\* other than "ok", the Coordination agent answers the run_caco_planning
\* request with a {status: "error"} response that embeds the Compute payload,
\* and does not invoke the scheduling engine
C19_ComputeErrorPropagated ==
    \A c \in ContextIds :
        ComputeAnsweredNotOk(c) =>
            /\ coord[c].pc = "done"
            /\ "engine" \notin Range(coord[c].log)
            /\ Len(coord[c].emitted) = 1
            /\ coord[c].emitted[1].body.status = "error"
            /\ \E field \in DOMAIN coord[c].emitted[1].body \ {"status"} :
                  coord[c].emitted[1].body[field] = coord[c].jobs_payload

\* the handler of context c has issued the RPC and has not had its reply
InFlight(c, sent, received) ==
    /\ sent \in Range(coord[c].log)
    /\ received \notin Range(coord[c].log)

\* C20: in a planning cycle the get_grid_forecast RPC and the
\* get_flexibility_profile RPC are both issued before either response is
\* awaited: a handler that awaits the reply of one has both in flight or has
\* had the reply of the other
C20_RequestsFannedOut ==
    \A c \in ContextIds :
        /\ coord[c].pc = "awaiting_grid" =>
              /\ InFlight(c, "send_grid", "recv_grid")
              /\ "send_compute" \in Range(coord[c].log)
        /\ coord[c].pc = "awaiting_compute" =>
              /\ InFlight(c, "send_compute", "recv_compute")
              /\ \A i, j \in DOMAIN coord[c].log :
                    coord[c].log[i] = "send_compute" /\ coord[c].log[j] = "recv_grid" => i < j

---------------------------------------------------------------------------
(* Properties of the last-plan cache of the Coordination agent *)

\* the handler of context c takes an export_beckn_catalog request in this step
ExportArrives(c) ==
    /\ coord[c].pc = "idle"
    /\ coord'[c].request.kind = "object"
    /\ "command" \in coord'[c].request.payload.keys
    /\ coord'[c].request.payload.command = "export_beckn_catalog"

CacheUnchanged ==
    /\ last_schedule' = last_schedule
    /\ last_flex_offers' = last_flex_offers

\* C21: export_beckn_catalog returns status "ok" with an empty flex_offers
\* list while no planning cycle has completed successfully, and otherwise
\* exactly the flex offers produced by the most recently completed successful
\* planning cycle; it never modifies the cache
C21_ExportReturnsLastPlan ==
    [][\A c \in ContextIds :
          ExportArrives(c) =>
              /\ coord'[c].pc = "done"
              /\ coord'[c].emitted =
                    <<text_message(c, [status |-> "ok",
                                       flex_offers |-> last_success.flex_offers])>>
              /\ ~ last_success.completed => coord'[c].emitted[1].body.flex_offers = <<>>
              /\ CacheUnchanged]_vars

\* an export has returned the offers of a completed planning cycle
C21_Witness ==
    /\ last_success.completed
    /\ \E c \in ContextIds :
          /\ coord[c].pc = "done"
          /\ coord[c].request.payload.command = "export_beckn_catalog"
          /\ coord[c].emitted[1].body.status = "ok"
          /\ coord[c].emitted[1].body.flex_offers # <<>>
          /\ coord[c].emitted[1].body.flex_offers = last_success.flex_offers

\* _last_schedule and _last_flex_offers are those of one success response
CacheOfOneCycle ==
    /\ [i \in DOMAIN last_schedule |-> scheduled_job_to_dict(last_schedule[i])]
          = last_success.scheduled_jobs
    /\ [i \in DOMAIN last_flex_offers |-> flex_offer_to_dict(last_flex_offers[i])]
          = last_success.flex_offers

\* C22: under any interleaving of planning and export requests, at every
\* suspension point _last_schedule and _last_flex_offers come from the same
\* planning cycle, and an export observes the offers of exactly one cycle,
\* never a mixture
C22_CacheReplacedAtomically ==
    /\ CacheOfOneCycle
    /\ [][/\ CacheOfOneCycle'
          /\ \A c \in ContextIds :
                ExportArrives(c) =>
                    /\ Len(coord'[c].emitted) = 1
                    /\ coord'[c].emitted[1].body.flex_offers
                          = [i \in DOMAIN last_flex_offers' |->
                                flex_offer_to_dict(last_flex_offers'[i])]]_vars

\* while a planning cycle is suspended on an RPC, another has replaced the
\* cache and an export has read it
C22_Witness ==
    /\ last_schedule # <<>>
    /\ last_flex_offers # <<>>
    /\ coord["ctx-1"].pc \in {"awaiting_grid", "awaiting_compute", "awaiting_oracle"}
    /\ coord["ctx-2"].pc = "done"
    /\ coord["ctx-2"].request.payload.command = "export_beckn_catalog"
    /\ coord["ctx-2"].emitted[1].body.flex_offers # <<>>

---------------------------------------------------------------------------
(* Properties of the strategy of a planning cycle *)

\* the value the payload gives for the key, or the default when the payload
\* omits it: 0.5, 1.0 and 10000 (weights in tenths)
StaticWeight(payload, key, default) ==
    IF "optimization" \in payload.keys /\ key \in payload.optimization.keys
    THEN payload.optimization[key]
    ELSE default

StaticWeights(payload) ==
    [carbon_penalty_weight |-> StaticWeight(payload, "carbon_penalty_weight", 5),
     sla_penalty_weight |-> StaticWeight(payload, "sla_penalty_weight", 10),
     max_power_kw |-> StaticWeight(payload, "max_power_kw", 10000)]

\* the weights of the strategy in the response of a handler
ReturnedWeights(h) ==
    [carbon_penalty_weight |-> h.emitted[1].body.strategy.carbon_penalty_weight,
     sla_penalty_weight |-> h.emitted[1].body.strategy.sla_penalty_weight,
     max_power_kw |-> h.emitted[1].body.strategy.max_power_kw]

EngineCalled(h) == "engine" \in Range(h.log)

Succeeded(h) ==
    /\ h.pc = "done"
    /\ Len(h.emitted) = 1
    /\ h.emitted[1].body.status = "success"

\* C23: when no weight oracle is configured, the strategy returned by
\* run_caco_planning and passed to the engine equals the payload's
\* optimization values, with the defaults 0.5 / 1.0 / 10000 for each key the
\* payload omits, also when the grid upstream failed and fallback series were
\* used
C23_StaticStrategy ==
    \A c \in ContextIds :
        ~ strategy_llm =>
            /\ EngineCalled(coord[c]) =>
                  coord[c].weights = StaticWeights(coord[c].request.payload)
            /\ Succeeded(coord[c]) =>
                  ReturnedWeights(coord[c]) = StaticWeights(coord[c].request.payload)

\* without an oracle, a cycle planned against the fallback series of the Grid
\* agent has succeeded for a payload that gives one weight of the three
C23_Witness ==
    /\ ~ strategy_llm
    /\ \E c \in ContextIds :
          /\ Succeeded(coord[c])
          /\ EngineCalled(coord[c])
          /\ coord[c].carbon_series = fetch_grid_series(FallbackGridReply).carbon_series
          /\ coord[c].request.payload.optimization.keys = {"carbon_penalty_weight"}
          /\ ReturnedWeights(coord[c]) =
                [carbon_penalty_weight |-> 50, sla_penalty_weight |-> 10,
                 max_power_kw |-> 10000]
          /\ coord[c].emitted[1].body.scheduled_jobs # <<>>

\* the oracle was called for the handler and its reply parsed to an object
OracleAnswered(h) ==
    /\ "recv_oracle" \in Range(h.log)
    /\ h.decision.kind = "object"

\* C24: whenever the weight oracle is consulted and answers, the weights
\* passed to the engine satisfy 0 <= carbon_penalty_weight <= 10,
\* 0 <= sla_penalty_weight <= 10 and max_power_kw >= 1000, whatever values
\* the oracle returned (weights in tenths)
C24_OracleWeightsClamped ==
    \A c \in ContextIds :
        OracleAnswered(coord[c]) /\ EngineCalled(coord[c]) =>
            /\ 0 <= coord[c].weights.carbon_penalty_weight
            /\ coord[c].weights.carbon_penalty_weight <= 100
            /\ 0 <= coord[c].weights.sla_penalty_weight
            /\ coord[c].weights.sla_penalty_weight <= 100
            /\ coord[c].weights.max_power_kw >= 1000

\* the oracle has answered 15.0, -0.5 and 500 kW and the engine was called
\* with 10.0, 0.0 and 1000 kW
C24_Witness ==
    \E c \in ContextIds :
        /\ OracleAnswered(coord[c])
        /\ EngineCalled(coord[c])
        /\ coord[c].decision.carbon_penalty_weight = 150
        /\ coord[c].decision.sla_penalty_weight = 0 - 5
        /\ coord[c].decision.max_power_kw = 500
        /\ {"carbon_penalty_weight", "sla_penalty_weight", "max_power_kw"}
              \subseteq coord[c].decision.keys
        /\ coord[c].weights =
              [carbon_penalty_weight |-> 100, sla_penalty_weight |-> 0, max_power_kw |-> 1000]

\* the oracle was called for the handler and failed: the call raised, the
\* reply was no JSON, was JSON but no object, or gave a weight that is no number
OracleFailed(h) ==
    /\ "recv_oracle" \in Range(h.log)
    /\ \/ h.decision.kind \in {"raises", "not_json", "not_object"}
       \/ h.decision.kind = "object" /\ h.decision.non_numeric \cap h.decision.keys # {}

\* the engine takes the series and jobs of the handler with the static weights
EngineAcceptsStatic(h) ==
    ~ optimize_schedule(h.job_specs, h.carbon_series, h.price_series,
                        StaticWeights(h.request.payload)).raised

\* C25: on any oracle failure (call raises, reply is not JSON, reply is JSON
\* but not an object, or a weight field is non-numeric) the planning cycle
\* still completes with status "success" and uses exactly the static weights
\* (payload overrides over defaults)
C25_OracleFailureFallsBack ==
    \A c \in ContextIds :
        OracleFailed(coord[c]) /\ EngineAcceptsStatic(coord[c]) =>
            /\ Succeeded(coord[c])
            /\ coord[c].weights = StaticWeights(coord[c].request.payload)
            /\ ReturnedWeights(coord[c]) = StaticWeights(coord[c].request.payload)

---------------------------------------------------------------------------
(* Properties of the CSV event logger *)

\* the threads between the acquisition of the lock and its release
OnAppendPath == {t \in Threads : logger_pc[t] \in {"locked", "dir_made", "open",
                                                  "written", "closed"}}

\* every row in the file is whole: the head of a long row is followed at
\* once by its tail, but for the row that is being written
RowsWhole ==
    \A i \in DOMAIN logger_file :
        /\ logger_file[i].part = "head" =>
              IF i < Len(logger_file)
              THEN logger_file[i + 1] = [logger_file[i] EXCEPT !.part = "tail"]
              ELSE logger_pc[logger_file[i].thread] = "written"
        /\ logger_file[i].part = "tail" =>
              i > 1 /\ logger_file[i - 1] = [logger_file[i] EXCEPT !.part = "head"]

\* C26: concurrent CsvEventLogger.append calls from several threads (on the
\* same or different logger instances for the same file) are mutually
\* exclusive on the file-append path, so rows are never interleaved, and
\* creating the missing directory is idempotent
C26_AppendMutuallyExclusive ==
    /\ Cardinality(OnAppendPath) <= 1 /\ RowsWhole
    /\ [][/\ Cardinality(OnAppendPath') <= 1
          /\ RowsWhole'
          /\ \A t \in Threads :
                logger_pc[t] = "locked" /\ logger_pc'[t] = "dir_made" =>
                    /\ logger_dir'
                    /\ logger_dir => logger_file' = logger_file]_vars

\* a thread of the other instance waits for the lock while a long row is
\* half written, after a row of another thread went into a directory that
\* had to be created again
C26_Witness ==
    /\ logger_pc["thread-1"] = "written"
    /\ logger_row["thread-1"].size = "long"
    /\ logger_pc["thread-3"] = "waiting"
    /\ logger_appended["thread-2"] = 1
    /\ Len(logger_file) = 2
    /\ logger_file[1].thread = "thread-2"


---------------------------------------------------------------------------
(* Properties of the placement loop *)

\* the job whose turn it is
JobAtTurn == sorted_jobs[cursor]

\* the slots a placement of job at index idx occupies
OccupiedSlots(job, idx) == idx .. idx + duration_slots(job) - 1

\* the time a placement at idx ends and the lateness it has
CandidateEnd(job, idx) == timeline[idx + duration_slots(job) - 1] + SLOT_DURATION

CandidateLateness(job, idx) ==
    IF CandidateEnd(job, idx) > job.deadline THEN CandidateEnd(job, idx) - job.deadline ELSE 0

\* a start index that passes every filter, given the power already booked
Feasible(job, idx) ==
    /\ idx \in DOMAIN timeline
    /\ idx + duration_slots(job) - 1 <= Len(timeline)
    /\ timeline[idx] >= job.arrival_time
    /\ ~ (CandidateLateness(job, idx) > job.max_deferral_hours /\ job.max_deferral_hours > 0)
    /\ \A i \in OccupiedSlots(job, idx) : power_usage[i] + job.power_kw <= weights.max_power_kw

RECURSIVE SumSlots(_, _, _)
\* sum of lookup[timeline[i]] over the slots from-th to to-th
SumSlots(lookup, from, to) ==
    IF from > to THEN 0 ELSE lookup[timeline[from]] + SumSlots(lookup, from + 1, to)

\* the score of a candidate, x 40000: price in 1e-4 GBP/kWh, energy of a
\* slot in kW x quarter hours, weights in tenths, lateness in quarter hours
Score(job, idx) ==
    LET last   == idx + duration_slots(job) - 1
        energy == job.power_kw * SLOT_DURATION
    IN    SumSlots(price_lookup, idx, last) * energy
        + weights.carbon_penalty_weight * SumSlots(carbon_lookup, idx, last) * energy
        + (weights.sla_penalty_weight + 10 * job.sla_penalty_per_hour)
            * CandidateLateness(job, idx) * 1000

\* the loop body has run for the job at turn and has scheduled it
JobPlaced ==
    /\ pc = "placing"
    /\ cursor' = cursor + 1
    /\ Len(scheduled_jobs') = Len(scheduled_jobs) + 1

\* the loop body has run for the job at turn and has left it out
JobDropped ==
    /\ pc = "placing"
    /\ cursor' = cursor + 1
    /\ scheduled_jobs' = scheduled_jobs

\* the start index of the job just scheduled (the timeline is strictly ascending)
ChosenIndex ==
    CHOOSE i \in DOMAIN timeline : timeline[i] = scheduled_jobs'[Len(scheduled_jobs')].start_time

\* C27: when a job is scheduled, its start index is feasible and no feasible
\* candidate has a smaller score; a feasible candidate with the same score
\* does not start earlier
C27_SmallestScoreEarliestWins ==
    [][JobPlaced =>
        /\ Feasible(JobAtTurn, ChosenIndex)
        /\ \A i \in DOMAIN timeline :
              Feasible(JobAtTurn, i) =>
                  \/ Score(JobAtTurn, i) > Score(JobAtTurn, ChosenIndex)
                  \/ Score(JobAtTurn, i) = Score(JobAtTurn, ChosenIndex) /\ i >= ChosenIndex]_vars

\* a single job on a timeline of equal prices, with a positive carbon weight,
\* scheduled without lateness in the second slot, where carbon is lower,
\* although the first slot was open to it
C27_Witness ==
    /\ pc = "returned"
    /\ Len(jobs) = 1
    /\ Len(scheduled_jobs) = 1
    /\ Len(timeline) >= 2
    /\ weights.carbon_penalty_weight > 0
    /\ \A i \in DOMAIN timeline : price_lookup[timeline[i]] = price_lookup[timeline[1]]
    /\ jobs[1].arrival_time <= timeline[1]
    /\ timeline[1] + SLOT_DURATION <= jobs[1].deadline
    /\ scheduled_jobs[1].start_time = timeline[2]
    /\ scheduled_jobs[1].metadata.lateness_hours = 0
    /\ carbon_lookup[timeline[2]] < carbon_lookup[timeline[1]]


\* the loop body has run for the job at turn
TurnTaken == pc = "placing" /\ cursor' = cursor + 1

\* C28: the job at turn is left out of the schedule exactly when no start
\* index is feasible for it (start >= arrival, its slots within the timeline,
\* lateness not rejected by the filter, power cap kept in every occupied slot
\* given the power already booked); otherwise it is appended to the schedule,
\* nothing scheduled before is removed, and in both cases the loop goes on
\* without an error
C28_DroppedIffNoFeasibleIndex ==
    [][TurnTaken =>
        /\ (\E i \in DOMAIN timeline : Feasible(JobAtTurn, i)) =>
              /\ Len(scheduled_jobs') = Len(scheduled_jobs) + 1
              /\ SubSeq(scheduled_jobs', 1, Len(scheduled_jobs)) = scheduled_jobs
              /\ scheduled_jobs'[Len(scheduled_jobs')].job_id = JobAtTurn.job_id
        /\ (~ \E i \in DOMAIN timeline : Feasible(JobAtTurn, i)) =>
              scheduled_jobs' = scheduled_jobs
        /\ pc' = "placing"]_vars

\* two jobs that have arrived, one slot: the first is scheduled, the second
\* would exceed the power cap in that slot and is dropped, and the engine
\* returns
C28_Witness ==
    /\ pc = "returned"
    /\ Len(timeline) = 1
    /\ Len(jobs) = 2
    /\ \A k \in DOMAIN jobs :
          /\ jobs[k].arrival_time <= timeline[1]
          /\ duration_slots(jobs[k]) = 1
          /\ jobs[k].power_kw <= weights.max_power_kw
    /\ jobs[1].power_kw + jobs[2].power_kw > weights.max_power_kw
    /\ Len(scheduled_jobs) = 1
    /\ power_usage[1] = scheduled_jobs[1].power_kw


\* job a comes strictly before job b in ascending order of
\* (-priority, duration_hours, arrival_time)
StrictlyBefore(a, b) ==
    \/ a.priority > b.priority
    \/ a.priority = b.priority /\ a.duration_hours < b.duration_hours
    \/ /\ a.priority = b.priority
       /\ a.duration_hours = b.duration_hours
       /\ a.arrival_time < b.arrival_time

\* the place of a job in the order of placement
TurnOf(id) == CHOOSE i \in DOMAIN sorted_jobs : sorted_jobs[i].job_id = id

\* the jobs are taken in ascending order of the key, each of them once
PlacedInKeyOrder ==
    pc = "placing" =>
        /\ Len(sorted_jobs) = Len(jobs)
        /\ Range(sorted_jobs) = Range(jobs)
        /\ \A i \in DOMAIN sorted_jobs : \A j \in DOMAIN sorted_jobs :
              i < j => ~ StrictlyBefore(sorted_jobs[j], sorted_jobs[i])

\* the schedule holds jobs whose turn has passed, in the order of their turns
ScheduleInTurnOrder ==
    pc \in {"placing", "returned"} =>
        /\ \A k \in DOMAIN scheduled_jobs :
              /\ \E i \in DOMAIN sorted_jobs : sorted_jobs[i].job_id = scheduled_jobs[k].job_id
              /\ TurnOf(scheduled_jobs[k].job_id) < cursor
        /\ \A k \in DOMAIN scheduled_jobs : \A l \in DOMAIN scheduled_jobs :
              k < l => TurnOf(scheduled_jobs[k].job_id) < TurnOf(scheduled_jobs[l].job_id)

\* power_usage with the job at turn added in the slots it occupies from idx on
Booked(idx) ==
    [i \in DOMAIN power_usage |->
        power_usage[i] + (IF i \in OccupiedSlots(JobAtTurn, idx) THEN JobAtTurn.power_kw ELSE 0)]

\* C29: the jobs are taken one at a time in ascending order of
\* (-priority, duration_hours, arrival_time); a placement is booked in
\* power_usage in the step that makes it, before the next job's turn, and a
\* drop books nothing; the schedule lists the scheduled jobs in the order of
\* their turns
C29_PriorityOrderCommitBeforeNext ==
    /\ PlacedInKeyOrder
    /\ ScheduleInTurnOrder
    /\ [][/\ PlacedInKeyOrder' /\ ScheduleInTurnOrder'
          /\ (pc = "placing" /\ (scheduled_jobs' # scheduled_jobs \/ power_usage' # power_usage))
                => JobPlaced
          /\ JobPlaced =>
                /\ scheduled_jobs'[Len(scheduled_jobs')].job_id = JobAtTurn.job_id
                /\ power_usage' = Booked(ChosenIndex)
          /\ JobDropped => power_usage' = power_usage]_vars

\* two jobs given lowest priority first and exceeding the cap together: the
\* job of higher priority is scheduled first and takes the first slot; the
\* other, for which the first slot scores no worse than the second, finds it
\* booked and is scheduled second, in the second slot
C29_Witness ==
    /\ pc = "returned"
    /\ Len(jobs) = 2
    /\ Len(timeline) = 2
    /\ jobs[1].priority < jobs[2].priority
    /\ jobs[1].power_kw + jobs[2].power_kw > weights.max_power_kw
    /\ Len(scheduled_jobs) = 2
    /\ scheduled_jobs[1].job_id = jobs[2].job_id
    /\ scheduled_jobs[2].job_id = jobs[1].job_id
    /\ scheduled_jobs[1].start_time = timeline[1]
    /\ scheduled_jobs[2].start_time = timeline[2]
    /\ jobs[1].arrival_time <= timeline[1]
    /\ Score(jobs[1], 1) <= Score(jobs[1], 2)
    /\ power_usage = <<jobs[2].power_kw, jobs[1].power_kw>>


\* C30: every scheduled job ends duration_slots half hours after it starts,
\* whatever the spacing of the timeline
C30_EndIsStartPlusSlots ==
    \A k \in DOMAIN scheduled_jobs :
        LET sj == scheduled_jobs[k]
        IN  sj.end_time = sj.start_time + duration_slots(SourceJob(sj.job_id)) * SLOT_DURATION


---------------------------------------------------------------------------
(* Properties of the timeline before the first point of a series *)

\* the earliest timestamp of a non-empty set of timestamps
Earliest(S) == CHOOSE u \in S : \A v \in S : u <= v

\* C31: at a timeline timestamp before the earliest point of a series, the
\* lookup of that series holds the value of its earliest point, in whatever
\* order the points of the series are given
C31_SeededByEarliestPoint ==
    pc = "timeline_built" =>
        \A i \in DOMAIN timeline :
            LET ts == timeline[i]
                ct == Timestamps(carbon_series)
                pt == Timestamps(price_series)
            IN  /\ (pt # {} /\ ts < Earliest(pt))
                      => price_lookup[ts] = 10 * PriceValueAt(Earliest(pt))
                /\ (ct # {} /\ ts < Earliest(ct))
                      => carbon_lookup[ts] = CarbonValueAt(Earliest(ct))


---------------------------------------------------------------------------
(* Properties of the power booked per timeline index *)

\* the timeline indices the k-th scheduled job occupies
IndicesOf(k) ==
    LET start == CHOOSE i \in DOMAIN timeline : timeline[i] = scheduled_jobs[k].start_time
    IN  start .. start + duration_slots(SourceJob(scheduled_jobs[k].job_id)) - 1

\* the scheduled jobs that occupy timeline index i
OccupantsOf(i) == {k \in DOMAIN scheduled_jobs : i \in IndicesOf(k)}

\* C32: while jobs are placed and after the return, power_usage[i] is the sum
\* of power_kw of the jobs scheduled so far that occupy index i, and is at
\* most max_power_kw; so two jobs whose powers together exceed the cap share
\* no timeline index
C32_PowerUsageIsSumWithinCap ==
    (pc \in {"placing", "returned"} /\ timeline # <<>>) =>
        /\ DOMAIN power_usage = DOMAIN timeline
        /\ \A i \in DOMAIN timeline :
              /\ power_usage[i] =
                     SumOver([k \in DOMAIN scheduled_jobs |-> scheduled_jobs[k].power_kw],
                             OccupantsOf(i))
              /\ power_usage[i] <= weights.max_power_kw
        /\ \A k \in DOMAIN scheduled_jobs : \A l \in DOMAIN scheduled_jobs :
              (k # l /\ scheduled_jobs[k].power_kw + scheduled_jobs[l].power_kw
                            > weights.max_power_kw)
                  => IndicesOf(k) \cap IndicesOf(l) = {}

\* two jobs of 600 kW with the same sort key under a cap of 1000 kW, both
\* arrived by the first slot: both are scheduled, in different slots, and
\* each slot has 600 kW booked
C32_Witness ==
    /\ pc = "returned"
    /\ weights.max_power_kw = 1000
    /\ Len(timeline) >= 2
    /\ Len(jobs) = 2
    /\ Len(scheduled_jobs) = 2
    /\ \A k \in DOMAIN jobs : jobs[k].power_kw = 600 /\ jobs[k].arrival_time <= timeline[1]
    /\ IndicesOf(1) \cap IndicesOf(2) = {}
    /\ \A k \in DOMAIN scheduled_jobs : \A i \in IndicesOf(k) : power_usage[i] = 600


---------------------------------------------------------------------------
(* Properties of a planning cycle *)

\* the events of a handler's log before position p
EventsBefore(log, p) == {log[q] : q \in 1 .. p - 1}

\* C33: in the cycle of every planning request the engine is called only
\* after the reply of the grid RPC and the reply of the compute RPC have come
\* in, and it is called at most once
C33_EngineAfterBothReplies ==
    \A c \in ContextIds :
        LET log == coord[c].log
        IN  \A p \in DOMAIN log :
                log[p] = "engine" =>
                    /\ {"recv_grid", "recv_compute"} \subseteq EventsBefore(log, p)
                    /\ \A q \in DOMAIN log : log[q] = "engine" => q = p

\* a cycle with a weight oracle that has answered success: grid reply, then
\* compute reply, then the oracle, then the one call of the engine
C33_Witness ==
    \E c \in ContextIds :
        /\ Succeeded(coord[c])
        /\ coord[c].log = <<"send_grid", "recv_grid", "send_compute", "recv_compute",
                            "call_oracle", "recv_oracle", "engine">>
        /\ coord[c].job_specs # <<>>


\* the handler of context c holds a run_caco_planning request
IsPlanning(h) ==
    /\ h.request.kind = "object"
    /\ "command" \in h.request.payload.keys
    /\ h.request.payload.command = "run_caco_planning"

\* the planning cycle of context c ends in this step without a success response
FailedCycleEnds(c) ==
    /\ coord[c].pc # "done"
    /\ coord'[c].pc = "done"
    /\ IsPlanning(coord'[c])
    /\ ~ Succeeded(coord'[c])

\* C34: the step in which a planning cycle ends without success, at whatever
\* point of the cycle, leaves _last_schedule and _last_flex_offers as they
\* were: the cache still holds the result of the last successful cycle
C34_FailedCycleKeepsCache ==
    [][\A c \in ContextIds :
          FailedCycleEnds(c) =>
              /\ CacheUnchanged
              /\ last_success' = last_success
              /\ CacheOfOneCycle']_vars

\* after a successful cycle that left offers, a cycle has failed on the reply
\* of the Compute agent, and the offers are still in the cache
C34_Witness ==
    /\ last_success.completed
    /\ last_flex_offers # <<>>
    /\ CacheOfOneCycle
    /\ \E c \in ContextIds :
          /\ coord[c].pc = "done"
          /\ IsPlanning(coord[c])
          /\ coord[c].raised
          /\ coord[c].log = <<"send_grid", "recv_grid", "send_compute", "recv_compute">>


---------------------------------------------------------------------------
(* Properties of the ledger of the Compute agent *)

\* the Compute agent has handled a request
ComputeHandled == compute_request.kind # "none"

\* the ledger holds every job of the batch just ingested
BatchApplied ==
    /\ RequestJobsWellFormed
    /\ \A id \in RequestJobIds :
          /\ id \in ledger_ids(ledger)
          /\ job_to_dict(ledger_get(ledger, id)) = LastWithId(id)

\* C35: a request that is not ingest_jobs (a profile, an unknown command, a
\* malformed request) leaves the ledger as it was, and the ledger a later
\* profile reads holds of every ingest either the whole batch or nothing of it
C35_OnlyIngestChangesLedger ==
    ComputeHandled =>
        /\ ~ IsIngestRequest => ledger = ledger_before
        /\ IsIngestRequest => (ledger = ledger_before \/ BatchApplied)

\* C38: an ingest_jobs request with a job that cannot be parsed leaves the
\* ledger exactly as it was before the request
C38_IngestAllOrNothing ==
    (IsIngestRequest /\ ~ RequestJobsWellFormed) => ledger = ledger_before


---------------------------------------------------------------------------
(* Properties of the engine across inputs: the schedule of the input at    *)
(* hand against the schedule of the same input with jobs removed           *)

\* job x comes after job j in the order of placement: by the key, and for
\* equal keys by the place in the input
ComesAfter(x, j) ==
    \/ StrictlyBefore(j, x)
    \/ /\ ~ StrictlyBefore(x, j)
       /\ \E a \in DOMAIN jobs : \E b \in DOMAIN jobs : jobs[a] = j /\ jobs[b] = x /\ a < b

\* the input without the jobs whose ids are in removed
InputWithout(removed) == SelectSeq(jobs, LAMBDA job : job.job_id \notin removed)

\* the schedule optimize_schedule returns for the input js on the series and
\* weights at hand
ScheduleOf(js) ==
    place_jobs(sorted_jobs_of(js), 1, timeline, price_lookup, carbon_lookup,
               [i \in DOMAIN timeline |-> 0], weights)

\* whether and where a schedule places the job with the given id
PlacementIn(schedule, id) ==
    IF \E k \in DOMAIN schedule : schedule[k].job_id = id
    THEN LET sj == schedule[CHOOSE k \in DOMAIN schedule : schedule[k].job_id = id]
         IN  [scheduled |-> TRUE, start_time |-> sj.start_time, end_time |-> sj.end_time,
              lateness_hours |-> sj.metadata.lateness_hours]
    ELSE [scheduled |-> FALSE, start_time |-> 0, end_time |-> 0, lateness_hours |-> 0]

\* C36: for every set of jobs of the input and every job that precedes them
\* all in the order of placement, the schedule of the input without that set
\* places the job as the schedule of the whole input does: same start_time,
\* end_time and lateness, or dropped in both
C36_IndependentOfLaterJobs ==
    (pc = "returned" /\ timeline # <<>>) =>
        \A removed \in SUBSET {jobs[a].job_id : a \in DOMAIN jobs} :
            LET reduced == ScheduleOf(InputWithout(removed))
            IN  \A j \in Range(jobs) :
                    (/\ j.job_id \notin removed
                     /\ \A x \in Range(jobs) : x.job_id \in removed => ComesAfter(x, j))
                        => PlacementIn(reduced, j.job_id)
                               = PlacementIn(scheduled_jobs, j.job_id)

\* two jobs that exceed the cap together, both scheduled: the later one, had
\* it been alone, would have started where the earlier one starts, and the
\* earlier one starts where it starts when it is alone
C36_Witness ==
    /\ pc = "returned"
    /\ Len(jobs) = 2
    /\ Len(scheduled_jobs) = 2
    /\ jobs[1].power_kw + jobs[2].power_kw > weights.max_power_kw
    /\ \E j \in Range(jobs) : \E x \in Range(jobs) :
          /\ ComesAfter(x, j)
          /\ PlacementIn(ScheduleOf(<<x>>), x.job_id).start_time
                = PlacementIn(scheduled_jobs, j.job_id).start_time
          /\ PlacementIn(ScheduleOf(<<x>>), x.job_id) # PlacementIn(scheduled_jobs, x.job_id)
          /\ PlacementIn(ScheduleOf(<<j>>), j.job_id) = PlacementIn(scheduled_jobs, j.job_id)


---------------------------------------------------------------------------
(* Properties of overlapping planning cycles *)

\* the planning cycle of context c ends with a success response in this step
SuccessfulCycleEnds(c) ==
    /\ coord[c].pc # "done"
    /\ coord'[c].pc = "done"
    /\ IsPlanning(coord'[c])
    /\ Succeeded(coord'[c])

\* the cache, as to_dict gives it, is the result in the response of handler h
CacheHoldsResultOf(h) ==
    /\ [i \in DOMAIN last_schedule |-> scheduled_job_to_dict(last_schedule[i])]
          = h.emitted[1].body.scheduled_jobs
    /\ [i \in DOMAIN last_flex_offers |-> flex_offer_to_dict(last_flex_offers[i])]
          = h.emitted[1].body.flex_offers

\* C37: with planning cycles overlapping in any way, the step in which a
\* cycle completes puts the result of that cycle in the cache, whichever
\* cycle was requested first, and no other step changes the cache: the cache
\* holds the result of the cycle that completed last and never that of a
\* cycle still under way
C37_LastCompletedCycleWins ==
    [][/\ \A c \in ContextIds : SuccessfulCycleEnds(c) => CacheHoldsResultOf(coord[c])'
       /\ (~ \E c \in ContextIds : SuccessfulCycleEnds(c)) => CacheUnchanged]_vars

\* the cycle of ctx-2 started while the cycle of ctx-1 was suspended and
\* completed before it: both have answered, with different results, and the
\* cache holds the result of ctx-1, the cycle requested first
C37_Witness ==
    /\ Succeeded(coord["ctx-1"]) /\ IsPlanning(coord["ctx-1"])
    /\ Succeeded(coord["ctx-2"]) /\ IsPlanning(coord["ctx-2"])
    /\ "ctx-1" \in coord["ctx-2"].started_during
    /\ coord["ctx-1"].started_during = {}
    /\ coord["ctx-1"].emitted[1].body.scheduled_jobs
          # coord["ctx-2"].emitted[1].body.scheduled_jobs
    /\ CacheHoldsResultOf(coord["ctx-1"])
    /\ last_schedule # <<>>


---------------------------------------------------------------------------
(* Properties of the log file from the construction of the loggers on *)

\* no thread is inside __init__ or inside append, and a logger exists
LoggersAtRest ==
    /\ \A t \in Threads : logger_pc[t] \in {"unconstructed", "idle"}
    /\ \E t \in Threads : logger_pc[t] = "idle"

\* the n-th row of thread t is in the file, in one piece or in two adjacent ones
RowInFile(t, n) ==
    \E i \in DOMAIN logger_file :
        /\ logger_file[i].thread = t
        /\ logger_file[i].row = n
        /\ \/ logger_file[i].part = "whole"
           \/ /\ logger_file[i].part = "head"
              /\ i < Len(logger_file)
              /\ logger_file[i + 1] = [thread |-> t, row |-> n, part |-> "tail"]

\* C39: whenever the constructions and appends begun have all returned, the
\* file is one header line followed by every row appended: no row is lost
C39_NoRowLost ==
    LoggersAtRest =>
        /\ logger_file # <<>>
        /\ logger_file[1] = HeaderWrite
        /\ \A i \in DOMAIN logger_file : i > 1 => logger_file[i].part # "header"
        /\ \A t \in Threads : \A n \in 1 .. logger_appended[t] : RowInFile(t, n)

============================================================================
